---- MODULE Spec2Model ----
(***************************************************************************)
(* A model of the zenodb row store (src/unnamed/part_000, package zenodb)  *)
(* and of its radix-tree memstore (src/bytetree/bytetree.go).              *)
(*                                                                         *)
(* Two specifications share the heap of trees and data arrays:             *)
(*   SpecTree - one Tree driven by Update / Walk / Remove calls.           *)
(*   Spec     - the row store: inserter, flusher and one query task.       *)
(***************************************************************************)
EXTENDS Integers, Sequences, FiniteSets, Bags, TLC

(***************************************************************************)
(* Bounds of the model.                                                    *)
(***************************************************************************)
MaxByte == 2          \* key bytes are drawn from 1..MaxByte
MaxKeyLen == 2        \* keys are byte strings of length 1..MaxKeyLen
MaxUpdates == 3       \* Update calls made on the tree under SpecTree
MaxCtx == 2           \* walk contexts are drawn from 0..MaxCtx

NumFields == 2        \* len(fields): columns held by every node's data

Bytes == 1..MaxByte

RECURSIVE KeysOfLen(_)
KeysOfLen(n) ==
  IF n = 0 THEN {<<>>}
  ELSE {Append(k, b) : k \in KeysOfLen(n - 1), b \in Bytes}

Keys == UNION {KeysOfLen(n) : n \in 1..MaxKeyLen}

Ctxs == 0..MaxCtx

(***************************************************************************)
(* encoding.Sequence, abstracted to the bag of points it aggregates: the   *)
(* state of a period is determined by the multiset of points merged into   *)
(* it, and a point carries the period (ts) it falls into.  The nil         *)
(* sequence is the empty bag.                                              *)
(***************************************************************************)
NilSeq == EmptyBag

SeqTruncate(seq, truncateBefore) ==
  LET keep == {p \in DOMAIN seq : p.ts >= truncateBefore}
  IN  [p \in keep |-> seq[p]]

SeqUpdate(seq, point, truncateBefore) ==
  SeqTruncate(seq (+) SetToBag({point}), truncateBefore)

SeqMerge(a, b, truncateBefore) ==
  SeqTruncate(a (+) b, truncateBefore)

\* cap(sequence): the bytes a sequence occupies, one unit per point
SeqCap(seq) == BagCardinality(seq)

(***************************************************************************)
(* bytetree: Tree, node, edge.  A tree is a record of its nodes (node 1 is *)
(* the root), its byte estimate and its length.  node.data is a reference  *)
(* into the heap of data arrays (0 is nil), because Copy aliases it.       *)
(***************************************************************************)
Root == 1
NilData == 0
NilKey == <<>>

node(key, edges, data) ==
  [key |-> key, edges |-> edges, data |-> data, removedFor |-> <<>>]

edge(label, target) == [label |-> label, target |-> target]

New == [nodes |-> <<node(NilKey, <<>>, NilData)>>, bytes |-> 0, length |-> 0]

TreeBytes(bt) == bt.bytes * 2

TreeLength(bt) == bt.length

\* the loop "for ; i < keyLength && i < labelLength; i++" of doUpdate and Remove
RECURSIVE CommonPrefix(_, _, _)
CommonPrefix(label, key, i) ==
  IF i < Len(key) /\ i < Len(label) /\ label[i + 1] = key[i + 1]
  THEN CommonPrefix(label, key, i + 1)
  ELSE i

Suffix(s, from) == SubSeq(s, from + 1, Len(s))

Prefix(s, to) == SubSeq(s, 1, to)

\* wasRemovedFor that finds no removal mark
wasRemovedFor_never(n, ctx) == FALSE

\* node.wasRemovedFor
wasRemovedFor(n, ctx) ==
  IF ctx = 0 THEN FALSE
  ELSE \E j \in 1..Len(n.removedFor) : n.removedFor[j] = ctx

\* doRemoveFor without the "if ctx == 0 { return }" guard
doRemoveFor_anyCtx(bt, ni, ctx) ==
  [bt EXCEPT !.nodes[ni].removedFor = Append(@, ctx)]

\* node.doRemoveFor, on node ni of tree bt
doRemoveFor(bt, ni, ctx) ==
  IF ctx = 0 THEN bt
  ELSE [bt EXCEPT !.nodes[ni].removedFor = Append(@, ctx)]

(***************************************************************************)
(* Tree.doUpdate: descend from node n with the rest of the key, looking at *)
(* the edges of n from edge e on.  Gives the tree after the structural     *)
(* change, the node that takes the data, the bytes the key added and       *)
(* whether the code reports a new node.                                    *)
(***************************************************************************)
\* edge.split, without the newLeaf.doUpdate call at its end
split(bt, n, e, splitOn, fullKey, key) ==
  LET old     == bt.nodes[n].edges[e]
      newNode == Len(bt.nodes) + 1
      single  == splitOn = Len(key)
      newLeaf == IF single THEN newNode ELSE newNode + 1
      toOld   == edge(Suffix(old.label, splitOn), old.target)
      inner   == IF single
                 THEN node(NilKey, <<toOld>>, NilData)
                 ELSE node(NilKey, <<toOld, edge(Suffix(key, splitOn), newLeaf)>>, NilData)
      added   == IF single THEN <<inner>> ELSE <<inner, node(fullKey, <<>>, NilData)>>
      relinked == [bt.nodes EXCEPT ![n].edges[e] = edge(Prefix(old.label, splitOn), newNode)]
  IN  [bt |-> [bt EXCEPT !.nodes = relinked \o added],
       target |-> newLeaf,
       bytesAdded |-> Len(key) - splitOn,
       newNode |-> TRUE]

RECURSIVE TreeDoUpdate(_, _, _, _, _)
TreeDoUpdate(bt, n, key, fullKey, e) ==
  IF e > Len(bt.nodes[n].edges)
  THEN \* Create new edge
       LET target == Len(bt.nodes) + 1
       IN  [bt |-> [bt EXCEPT !.nodes = Append([@ EXCEPT ![n].edges = Append(@, edge(key, target))],
                                               node(fullKey, <<>>, NilData))],
            target |-> target,
            bytesAdded |-> Len(key),
            newNode |-> TRUE]
  ELSE LET ed == bt.nodes[n].edges[e]
           labelLength == Len(ed.label)
           keyLength == Len(key)
           i == CommonPrefix(ed.label, key, 0)
       IN  IF i = keyLength /\ keyLength = labelLength
           THEN \* update existing node
                [bt |-> bt, target |-> ed.target, bytesAdded |-> 0, newNode |-> FALSE]
           ELSE IF i = labelLength /\ labelLength < keyLength
           THEN \* descend
                TreeDoUpdate(bt, ed.target, Suffix(key, labelLength), fullKey, 1)
           ELSE IF i > 0
           THEN \* common substring, split on that
                split(bt, n, e, i, fullKey, key)
           ELSE TreeDoUpdate(bt, n, key, fullKey, e + 1)

(***************************************************************************)
(* node.doUpdate on the heap of data arrays.  A node without data gets a   *)
(* fresh array of NumFields nil sequences; a node with data is updated in  *)
(* place, one field after the other.                                       *)
(***************************************************************************)
NilArray == [i \in 1..NumFields |-> NilSeq]

\* "if len(n.data) < len(fields) { newData := make(...); n.data = newData }"
nodeGrowData(bt, arrs, ni) ==
  IF bt.nodes[ni].data = NilData
  THEN [bt |-> [bt EXCEPT !.nodes[ni].data = Len(arrs) + 1],
        arrays |-> Append(arrs, NilArray)]
  ELSE [bt |-> bt, arrays |-> arrs]

\* one round of "for i, field := range fields": n.data[i] = current.Update(...)
nodeUpdateField(arrs, ref, i, point, truncateBefore) ==
  [arrs EXCEPT ![ref][i] = SeqUpdate(@, point, truncateBefore)]

\* "bytesAdded += cap(updated) - previousSize" of that round
fieldBytesAdded(arrs, ref, i, point, truncateBefore) ==
  SeqCap(SeqUpdate(arrs[ref][i], point, truncateBefore)) - SeqCap(arrs[ref][i])

RECURSIVE nodeDoUpdate(_, _, _, _, _, _)
nodeDoUpdate(arrs, ref, i, point, truncateBefore, bytesAdded) ==
  IF i > NumFields THEN [arrays |-> arrs, bytesAdded |-> bytesAdded]
  ELSE nodeDoUpdate(nodeUpdateField(arrs, ref, i, point, truncateBefore), ref, i + 1,
                    point, truncateBefore,
                    bytesAdded + fieldBytesAdded(arrs, ref, i, point, truncateBefore))

\* the tail of Tree.Update: "bt.bytes += bytesAdded; if newNode { bt.length++ }"
TreeAccount(bt, bytesAdded, newNode) ==
  [bt EXCEPT !.bytes = @ + bytesAdded,
             !.length = IF newNode THEN @ + 1 ELSE @]

\* Tree.Update as one call
TreeUpdate(bt, arrs, key, point, truncateBefore) ==
  LET s == TreeDoUpdate(bt, Root, key, key, 1)
      g == nodeGrowData(s.bt, arrs, s.target)
      u == nodeDoUpdate(g.arrays, g.bt.nodes[s.target].data, 1, point, truncateBefore, 0)
  IN  [bt |-> TreeAccount(g.bt, s.bytesAdded + u.bytesAdded, s.newNode),
       arrays |-> u.arrays,
       bytesAdded |-> s.bytesAdded + u.bytesAdded]

(***************************************************************************)
(* Tree.Remove: the node the descent finds (0 when there is none), then    *)
(* the removal mark and the data returned.                                 *)
(***************************************************************************)
RECURSIVE TreeFind(_, _, _, _)
TreeFind(bt, n, key, e) ==
  IF e > Len(bt.nodes[n].edges) THEN 0
  ELSE LET ed == bt.nodes[n].edges[e]
           labelLength == Len(ed.label)
           keyLength == Len(key)
           i == CommonPrefix(ed.label, key, 0)
       IN  IF i = keyLength /\ keyLength = labelLength THEN ed.target
           ELSE IF i = labelLength /\ labelLength < keyLength
           THEN TreeFind(bt, ed.target, Suffix(key, labelLength), 1)
           ELSE TreeFind(bt, n, key, e + 1)

TreeRemove(bt, ctx, fullKey) ==
  LET found == TreeFind(bt, Root, fullKey, 1)
  IN  IF found = 0 THEN [bt |-> bt, data |-> NilData]
      ELSE IF wasRemovedFor(bt.nodes[found], ctx) THEN [bt |-> bt, data |-> NilData]
      ELSE [bt |-> doRemoveFor(bt, found, ctx), data |-> bt.nodes[found].data]

(***************************************************************************)
(* Tree.Walk, one node of the queue at a time.  WalkCalls tells whether fn *)
(* is called for the node at the head of the queue; WalkVisit is the rest  *)
(* of that round of the loop, given what fn returned.                      *)
(***************************************************************************)
WalkStart == <<Root>>

WalkCalls(bt, nodes, ctx) ==
  LET n == bt.nodes[nodes[1]]
  IN  n.data # NilData /\ ~wasRemovedFor(n, ctx)

WalkTargets(n) == [j \in 1..Len(n.edges) |-> n.edges[j].target]

\* a Walk that ignores what fn returns
WalkVisit_ignoresKeep(bt, nodes, ctx, keep) ==
  [bt |-> bt, nodes |-> Tail(nodes) \o WalkTargets(bt.nodes[nodes[1]])]

WalkVisit(bt, nodes, ctx, keep) ==
  LET ni == nodes[1]
  IN  [bt |-> IF WalkCalls(bt, nodes, ctx) /\ ~keep THEN doRemoveFor(bt, ni, ctx) ELSE bt,
       nodes |-> Tail(nodes) \o WalkTargets(bt.nodes[ni])]

\* Tree.Walk as one call: fn returns true exactly on the nodes of keepNodes.
\* seen lists the node, key and data of every call of fn.
RECURSIVE TreeWalk(_, _, _, _, _)
TreeWalk(bt, nodes, ctx, keepNodes, seen) ==
  IF nodes = <<>> THEN [bt |-> bt, seen |-> seen]
  ELSE LET ni == nodes[1]
           v  == WalkVisit(bt, nodes, ctx, ni \in keepNodes)
       IN  TreeWalk(v.bt, v.nodes, ctx, keepNodes,
                    IF WalkCalls(bt, nodes, ctx)
                    THEN Append(seen, [node |-> ni, key |-> bt.nodes[ni].key,
                                       data |-> bt.nodes[ni].data])
                    ELSE seen)

(***************************************************************************)
(* Tree.Copy: nodes and edges are copied breadth first, a copied node      *)
(* takes the key and the data slice (the same array) of its original and   *)
(* no removal marks.                                                       *)
(***************************************************************************)
RECURSIVE TreeCopyLoop(_, _, _, _)
TreeCopyLoop(bt, cp, nodes, nodeCopies) ==
  IF nodes = <<>> THEN cp
  ELSE LET n    == bt.nodes[nodes[1]]
           cpn  == nodeCopies[1]
           base == Len(cp)
           cpts == [j \in 1..Len(n.edges) |->
                      node(bt.nodes[n.edges[j].target].key, <<>>,
                           bt.nodes[n.edges[j].target].data)]
           cpes == [j \in 1..Len(n.edges) |-> edge(n.edges[j].label, base + j)]
       IN  TreeCopyLoop(bt, [cp EXCEPT ![cpn].edges = cpes] \o cpts,
                        Tail(nodes) \o WalkTargets(n),
                        Tail(nodeCopies) \o [j \in 1..Len(n.edges) |-> base + j])

\* a Copy that hands out the tree itself
TreeCopy_sameTree(bt) == bt

TreeCopy(bt) ==
  [nodes |-> TreeCopyLoop(bt, <<node(NilKey, <<>>, NilData)>>, <<Root>>, <<Root>>),
   bytes |-> bt.bytes, length |-> bt.length]

(***************************************************************************)
(* State.                                                                  *)
(*   trees, arrays: the heap.  trees maps a tree's identity to its value,  *)
(*   arrays holds the data arrays ([]encoding.Sequence) that nodes and     *)
(*   their copies refer to.                                                *)
(*   tUpdates .. tZero: the calls made on tree TheTree under SpecTree: the *)
(*   keys updated so far (update i stores point i), the (ctx, key) pairs   *)
(*   that Remove took out of view, the (ctx, key) pairs for which a Walk's *)
(*   fn returned false, and whether a call with ctx = 0 asked for a        *)
(*   removal.                                                              *)
(***************************************************************************)
VARIABLES trees, arrays, tUpdates, tRemoved, tWalkedOut, tZero

heapVars == <<trees, arrays>>
treeVars == <<tUpdates, tRemoved, tWalkedOut, tZero>>

(***************************************************************************)
(* State of the row store (Spec).                                          *)
(*   includeMemStore  db.opts.IncludeMemStoreInQuery                       *)
(*   now              the clock, in periods of the table's resolution      *)
(*   lastCtx          the last value time.Now().UnixNano() gave an iterate *)
(*   memStores        rs.memStores: index -> tree                          *)
(*   fileStore        rs.fileStore: the file it names                      *)
(*   files            the files of opts.dir, in the order of their names:  *)
(*                    header, rows, modification time, whether deleted     *)
(*   flushes, flushFinished   the channels, as queues                      *)
(*   mx               rs.mx: who holds the write lock                      *)
(*   opts             rowStoreOptions: minFlushLatency, maxFlushLatency    *)
(*   flushTimer       the wait that flushTimer of processInserts was last  *)
(*                    set to                                               *)
(*   ins, fl, q       the locals and the position of processInserts,       *)
(*                    processFlushes and of the task running a query       *)
(*   inserted         the inserts whose rowStore.insert() has returned     *)
(*   crashed          a panic has ended the process                        *)
(***************************************************************************)
VARIABLES includeMemStore, opts, now, lastCtx, memStores, fileStore, files,
          flushes, flushFinished, mx, flushTimer, ins, fl, q, inserted, crashed

rsVars == <<includeMemStore, opts, now, lastCtx, memStores, fileStore, files,
            flushes, flushFinished, mx, flushTimer, ins, fl, q, inserted, crashed>>

(***************************************************************************)
(* Expression state (expr/avg.go).  An expression node keeps its partial   *)
(* state in a fixed number of bytes of a byte slice and hands the rest of  *)
(* the slice to the node it wraps.  A slice is modelled by the contents of *)
(* its array and the offset at which the slice starts in it.               *)
(*                                                                         *)
(* float64 is scaled down to MantissaBits significant bits (53 in Go); the *)
(* values are the naturals that fit, with round-to-nearest-even, and their *)
(* bit patterns keep the IEEE layout (biased exponent above the fraction). *)
(*                                                                         *)
(*   avgStates   the avg states at hand, by name; NilSlice where none      *)
(*   avgCalls    the calls of update made so far on the accumulator        *)
(*   avgRet      what the last call of merge, update or get returned       *)
(***************************************************************************)
VARIABLES avgStates, avgCalls, avgRet

avgVars == <<avgStates, avgCalls, avgRet>>


MantissaBits == 3     \* significant bits of a float64, scaled down from 53
WrappedWidth == 1     \* EncodedWidth() of the wrapped expression
MaxAvgUpdates == 4    \* calls of update on one accumulator

Width64bits == 8

RECURSIVE Pow2(_)
Pow2(n) == IF n = 0 THEN 1 ELSE 2 * Pow2(n - 1)

\* the exponent of the spacing of the floats around the natural n
RECURSIVE StepExp(_)
StepExp(n) == IF n < Pow2(MantissaBits) THEN 0 ELSE 1 + StepExp(n \div 2)

\* num/den rounded to the nearest float, ties to the even mantissa
RoundToFloat(num, den) ==
  LET e == StepExp(num \div den)
      d == den * Pow2(e)
      k == num \div d
      r == num % d
  IN  IF 2 * r < d \/ (2 * r = d /\ k % 2 = 0)
        THEN k * Pow2(e)
        ELSE (k + 1) * Pow2(e)

IsFloat(n) == RoundToFloat(n, 1) = n

FAdd(a, b) == RoundToFloat(a + b, 1)
FDiv(a, b) == RoundToFloat(a, b)

\* the exponent e with f = m * 2^e and 2^(MantissaBits-1) <= m < 2^MantissaBits
RECURSIVE NormExp(_)
NormExp(f) ==
  IF f >= Pow2(MantissaBits) THEN 1 + NormExp(f \div 2)
  ELSE IF f < Pow2(MantissaBits - 1) THEN NormExp(2 * f) - 1
  ELSE 0

ExpBias == MantissaBits

Scale(m, e) == IF e >= 0 THEN m * Pow2(e) ELSE m \div Pow2(0 - e)

\* math.Float64bits: biased exponent, then the mantissa without its top bit
Float64bits(f) ==
  IF f = 0 THEN 0
  ELSE LET e == NormExp(f)
           m == IF e >= 0 THEN f \div Pow2(e) ELSE f * Pow2(0 - e)
       IN  (e + ExpBias) * Pow2(MantissaBits - 1) + (m - Pow2(MantissaBits - 1))

\* math.Float64frombits
Float64frombits(u) ==
  IF u = 0 THEN 0
  ELSE Scale(Pow2(MantissaBits - 1) + (u % Pow2(MantissaBits - 1)),
             (u \div Pow2(MantissaBits - 1)) - ExpBias)

\* binaryEncoding.PutUint64 and binaryEncoding.Uint64: least significant byte first
RECURSIVE PutUint64From(_, _)
PutUint64From(v, n) ==
  IF n = 0 THEN <<>> ELSE <<v % 256>> \o PutUint64From(v \div 256, n - 1)

PutUint64(v) == PutUint64From(v, Width64bits)

\* exact below 2^22; a larger value, beyond every length and bit pattern at
\* hand, is kept only as a value that large
RECURSIVE Uint64From(_, _)
Uint64From(bytes, i) ==
  IF i > Width64bits THEN 0
  ELSE LET high == Uint64From(bytes, i + 1)
       IN  IF high >= Pow2(22) THEN high ELSE bytes[i] + 256 * high

Uint64(bytes) == Uint64From(bytes, 1)

\* slices: b[i], b[n:], copy into b[i:], and the bytes b[i:i+n]
NilSlice == [arr |-> <<>>, off |-> -1]
MakeSlice(n) == [arr |-> [i \in 1..n |-> 0], off |-> 0]
SliceByte(b, i) == b.arr[b.off + i + 1]
SliceFrom(b, n) == [b EXCEPT !.off = @ + n]
SliceBytes(b, i, n) == [j \in 1..n |-> b.arr[b.off + i + j]]
SlicePut(b, i, bytes) ==
  [b EXCEPT !.arr = [j \in DOMAIN @ |->
     IF j - b.off - i \in 1..Len(bytes) THEN bytes[j - b.off - i] ELSE @[j]]]

avgWidth == Width64bits * 2 + 1
avgEncodedWidth == avgWidth + WrappedWidth

avgLoad(b) ==
  LET wasSet == SliceByte(b, 0) = 1
  IN  [count  |-> IF wasSet THEN Float64frombits(Uint64(SliceBytes(b, 1, Width64bits)))
                            ELSE 0,
       total  |-> IF wasSet
                    THEN Float64frombits(Uint64(SliceBytes(b, Width64bits + 1, Width64bits)))
                    ELSE 0,
       wasSet |-> wasSet,
       remain |-> SliceFrom(b, avgWidth)]

avgSave(b, count, total) ==
  SliceFrom(SlicePut(SlicePut(SlicePut(b, 0, <<1>>),
                              1, PutUint64(Float64bits(count))),
                     Width64bits + 1, PutUint64(Float64bits(total))),
            avgWidth)

avgCalc(count, total) == IF count = 0 THEN 0 ELSE FDiv(total, count)

\* wrapped.Update(more, params, metadata): the wrapped expression consumes its
\* own bytes and reports its value and whether params had one
wrappedUpdate(more, wrappedValue, updated) ==
  [remain |-> SliceFrom(more, WrappedWidth), value |-> wrappedValue, updated |-> updated]

avgUpdate_countsEveryCall(b, wrappedValue, updated) ==
  LET l == avgLoad(b)
      w == wrappedUpdate(l.remain, wrappedValue, updated)
      count == FAdd(l.count, 1)
      total == IF w.updated THEN FAdd(l.total, w.value) ELSE l.total
      saved == avgSave(b, count, total)
  IN  [b |-> [saved EXCEPT !.off = b.off],
       remain |-> [w.remain EXCEPT !.arr = saved.arr],
       value |-> avgCalc(count, total),
       updated |-> w.updated]

avgUpdate(b, wrappedValue, updated) ==
  LET l == avgLoad(b)
      w == wrappedUpdate(l.remain, wrappedValue, updated)
      count == IF w.updated THEN FAdd(l.count, 1) ELSE l.count
      total == IF w.updated THEN FAdd(l.total, w.value) ELSE l.total
      saved == IF w.updated THEN avgSave(b, count, total) ELSE b
  IN  [b |-> [saved EXCEPT !.off = b.off],
       remain |-> [w.remain EXCEPT !.arr = saved.arr],
       value |-> avgCalc(count, total),
       updated |-> w.updated]

avgMerge_keepsX(b, x, y) ==
  LET lx == avgLoad(x)
      ly == avgLoad(y)
  IN  [b |-> IF lx.wasSet THEN avgSave(b, lx.count, lx.total) ELSE SliceFrom(b, avgWidth),
       remainX |-> lx.remain,
       remainY |-> ly.remain]

avgMerge_countOfX(b, x, y) ==
  LET lx == avgLoad(x)
      ly == avgLoad(y)
  IN  [b |-> IF ~lx.wasSet
               THEN IF ly.wasSet THEN avgSave(b, ly.count, ly.total)
                                 ELSE SliceFrom(b, avgWidth)
               ELSE IF ly.wasSet
                      THEN avgSave(b, lx.count, FAdd(lx.total, ly.total))
                      ELSE avgSave(b, lx.count, lx.total),
       remainX |-> lx.remain,
       remainY |-> ly.remain]

avgMerge(b, x, y) ==
  LET lx == avgLoad(x)
      ly == avgLoad(y)
  IN  [b |-> IF ~lx.wasSet
               THEN IF ly.wasSet THEN avgSave(b, ly.count, ly.total)
                                 ELSE SliceFrom(b, avgWidth)
               ELSE IF ly.wasSet
                      THEN avgSave(b, FAdd(lx.count, ly.count), FAdd(lx.total, ly.total))
                      ELSE avgSave(b, lx.count, lx.total),
       remainX |-> lx.remain,
       remainY |-> ly.remain]

avgGet(b) ==
  LET l == avgLoad(b)
  IN  [value |-> IF ~l.wasSet THEN 0 ELSE avgCalc(l.count, l.total),
       wasSet |-> l.wasSet,
       remain |-> l.remain]

(***************************************************************************)
(* Sequences (sequence.update, merge, truncate; exercised by seq_test.go). *)
(* A sequence holds the time of its newest period and one expression state *)
(* per period, newest first; the empty sequence has no bytes.  The         *)
(* expression is SUM: a flag and a float64 total per period.               *)
(*                                                                         *)
(*   seqs        the sequences at hand, by name                            *)
(*   seqPoints   the points each of them was updated with                  *)
(***************************************************************************)
VARIABLES seqs, seqPoints

seqVars == <<seqs, seqPoints>>

Resolution == 2        \* the width of a period, in units of time
MaxSeqTs == 7          \* the latest time of a point
MaxSeqUpdates == 4     \* updates made in all
MaxSeqValue == 2       \* the largest value a point brings

ZeroTime == 0

\* roundTime(ts, resolution)
AlignDown(ts) == ts - (ts % Resolution)

sumZero == [wasSet |-> FALSE, total |-> 0]
sumUpdate(st, v) == [wasSet |-> TRUE, total |-> FAdd(st.total, v)]
sumMerge(x, y) ==
  IF ~x.wasSet THEN y
  ELSE IF y.wasSet THEN [wasSet |-> TRUE, total |-> FAdd(x.total, y.total)]
  ELSE x
sumGet(st) == <<IF st.wasSet THEN st.total ELSE 0, st.wasSet>>

sequenceNil == [start |-> ZeroTime, periods |-> <<>>]
ZeroPeriods(n) == [i \in 1..n |-> sumZero]

numPeriods(seq) == Len(seq.periods)

ValueAt(seq, i) ==
  IF i \in 0..(numPeriods(seq) - 1) THEN sumGet(seq.periods[i + 1]) ELSE <<0, FALSE>>

valueAtTime(seq, ts) ==
  IF seq = sequenceNil \/ AlignDown(ts) > seq.start THEN <<0, FALSE>>
  ELSE ValueAt(seq, (seq.start - AlignDown(ts)) \div Resolution)

\* the periods a sequence starting at start may keep: those not before truncateBefore
maxPeriods(start, truncateBefore) ==
  IF start < truncateBefore THEN 0 ELSE (start - truncateBefore) \div Resolution + 1

sequenceTruncate_keepsAll(seq, truncateBefore) == seq

sequenceTruncate(seq, truncateBefore) ==
  IF seq = sequenceNil \/ maxPeriods(seq.start, truncateBefore) <= 0 THEN sequenceNil
  ELSE IF numPeriods(seq) > maxPeriods(seq.start, truncateBefore)
    THEN [seq EXCEPT !.periods = SubSeq(@, 1, maxPeriods(seq.start, truncateBefore))]
    ELSE seq

sequenceUpdate_overwrites(seq, ts, v, truncateBefore) ==
  LET t == AlignDown(ts)
      periodsApart == (seq.start - t) \div Resolution
      n == IF numPeriods(seq) > periodsApart + 1 THEN numPeriods(seq) ELSE periodsApart + 1
      updated ==
        IF seq = sequenceNil
          THEN [start |-> t, periods |-> <<sumUpdate(sumZero, v)>>]
        ELSE IF periodsApart < 0
          THEN [start |-> t,
                periods |-> <<sumUpdate(sumZero, v)>>
                              \o ZeroPeriods((0 - periodsApart) - 1) \o seq.periods]
        ELSE IF periodsApart >= maxPeriods(seq.start, truncateBefore)
          THEN seq
        ELSE [seq EXCEPT !.periods =
                [(@ \o ZeroPeriods(n - Len(@))) EXCEPT ![periodsApart + 1] = sumUpdate(sumZero, v)]]
  IN  sequenceTruncate(updated, truncateBefore)

sequenceUpdate(seq, ts, v, truncateBefore) ==
  LET t == AlignDown(ts)
      periodsApart == (seq.start - t) \div Resolution
      n == IF numPeriods(seq) > periodsApart + 1 THEN numPeriods(seq) ELSE periodsApart + 1
      updated ==
        IF seq = sequenceNil
          THEN [start |-> t, periods |-> <<sumUpdate(sumZero, v)>>]
        ELSE IF periodsApart < 0
          THEN [start |-> t,
                periods |-> <<sumUpdate(sumZero, v)>>
                              \o ZeroPeriods((0 - periodsApart) - 1) \o seq.periods]
        ELSE IF periodsApart >= maxPeriods(seq.start, truncateBefore)
          THEN seq
        ELSE [seq EXCEPT !.periods =
                [(@ \o ZeroPeriods(n - Len(@))) EXCEPT ![periodsApart + 1] = sumUpdate(@, v)]]
  IN  sequenceTruncate(updated, truncateBefore)

\* the state seq holds for the period that starts at time t
PeriodAt(seq, t) ==
  IF seq # sequenceNil /\ t <= seq.start
       /\ (seq.start - t) \div Resolution < numPeriods(seq)
    THEN seq.periods[(seq.start - t) \div Resolution + 1]
    ELSE sumZero

sequenceMerge_startOfFirst(seq, other, truncateBefore) ==
  IF seq = sequenceNil THEN sequenceTruncate(other, truncateBefore)
  ELSE IF other = sequenceNil THEN sequenceTruncate(seq, truncateBefore)
  ELSE sequenceTruncate(
         [start |-> seq.start,
          periods |-> [i \in 1..numPeriods(seq) |->
                         sumMerge(PeriodAt(seq, seq.start - (i - 1) * Resolution),
                                  PeriodAt(other, seq.start - (i - 1) * Resolution))]],
         truncateBefore)

sequenceMerge(seq, other, truncateBefore) ==
  IF seq = sequenceNil THEN sequenceTruncate(other, truncateBefore)
  ELSE IF other = sequenceNil THEN sequenceTruncate(seq, truncateBefore)
  ELSE LET start == IF seq.start > other.start THEN seq.start ELSE other.start
           endOf(x) == x.start - (numPeriods(x) - 1) * Resolution
           end == IF endOf(seq) < endOf(other) THEN endOf(seq) ELSE endOf(other)
           n == (start - end) \div Resolution + 1
       IN  sequenceTruncate(
             [start |-> start,
              periods |-> [i \in 1..n |->
                             sumMerge(PeriodAt(seq, start - (i - 1) * Resolution),
                                      PeriodAt(other, start - (i - 1) * Resolution))]],
             truncateBefore)

SeqNames == {"a", "b", "ab", "ba"}

AvgNames == {"x", "y", "z", "u", "xy", "yx", "yz", "xy_z", "x_yz", "xu", "ux", "a"}
NoRet == [op |-> "none"]

(***************************************************************************)
(* Rows on disk (the write closure of processFlushes, lines 724-770, and   *)
(* the file pass of fileStore.iterate, lines 975-1019):                    *)
(*   rowLength|keylength|key|numcolumns|col1len|...|col1|...               *)
(* rowLength and the column lengths are 64 bits, keylength and numcolumns  *)
(* are 16 bits; uint16 is scaled down to Uint16Bits bits.                  *)
(*                                                                         *)
(*   rowIn      the key and the columns handed to write                    *)
(*   rowBytes   the bytes write has put into the file                      *)
(*   rowOut     what the file pass of iterate has decoded from them        *)
(***************************************************************************)
VARIABLES rowIn, rowBytes, rowOut

rowVars == <<rowIn, rowBytes, rowOut>>

Uint16Bits == 2        \* bits of a uint16, scaled down from 16
MaxRowKeyLen == 4      \* bytes of the longest key
MaxColumns == 4        \* columns of the widest row

Width16bits == 2

\* uint16(n)
Uint16(n) == n % Pow2(Uint16Bits)

\* binary.Write of a uint16, and readInt16
PutUint16(v) == <<v % 256, (v \div 256) % 256>>

RECURSIVE FlattenSeq(_)
FlattenSeq(ss) == IF ss = <<>> THEN <<>> ELSE Head(ss) \o FlattenSeq(Tail(ss))

rowLengthOf(key, columns) ==
  Width64bits + Width16bits + Len(key) + Width16bits
    + Len(columns) * Width64bits + Len(FlattenSeq(columns))

\* the bytes write puts out for one row
encodeRow_lengthExcludesItself(key, columns) ==
  PutUint64(rowLengthOf(key, columns) - Width64bits)
    \o PutUint16(Uint16(Len(key)))
    \o key
    \o PutUint16(Uint16(Len(columns)))
    \o FlattenSeq([i \in 1..Len(columns) |-> PutUint64(Len(columns[i]))])
    \o FlattenSeq(columns)

encodeRow(key, columns) ==
  PutUint64(rowLengthOf(key, columns))
    \o PutUint16(Uint16(Len(key)))
    \o key
    \o PutUint16(Uint16(Len(columns)))
    \o FlattenSeq([i \in 1..Len(columns) |-> PutUint64(Len(columns[i]))])
    \o FlattenSeq(columns)

\* b[:n] and b[n:] of a slice b; Go panics when n is out of range
Take(b, n) == SubSeq(b, 1, n)
Drop(b, n) == SubSeq(b, n + 1, Len(b))

readInt16(row) == [v |-> row[1] + 256 * row[2], row |-> Drop(row, Width16bits)]
readInt64(row) == [v |-> Uint64(Take(row, Width64bits)), row |-> Drop(row, Width64bits)]

\* the loop of line 1000: numColumns column lengths, or a panic on a short row
RECURSIVE readColLengths(_, _, _)
readColLengths(row, n, lengths) ==
  IF n = 0 THEN [panic |-> FALSE, lengths |-> lengths, row |-> row]
  ELSE IF Len(row) < Width64bits THEN [panic |-> TRUE, lengths |-> lengths, row |-> row]
  ELSE readColLengths(readInt64(row).row, n - 1, Append(lengths, readInt64(row).v))

\* the loop of line 1007: one readSequence per column length
RECURSIVE readColumns(_, _, _)
readColumns(row, lengths, columns) ==
  IF lengths = <<>> THEN [panic |-> FALSE, columns |-> columns, row |-> row]
  ELSE IF Len(row) < Head(lengths) THEN [panic |-> TRUE, columns |-> columns, row |-> row]
  ELSE readColumns(Drop(row, Head(lengths)), Tail(lengths),
                   Append(columns, Take(row, Head(lengths))))

NoRow == [status |-> "none"]
RowPanic == [status |-> "panic"]
RowError == [status |-> "error"]

\* one round of the file pass on the bytes r: the row it decodes
decodeRow(r) ==
  IF Len(r) < Width64bits THEN RowError
  ELSE LET rowLength == Uint64(Take(r, Width64bits))
           rest == Drop(r, Width64bits)
       IN  IF rowLength < Width64bits THEN RowPanic
           ELSE IF Len(rest) < rowLength - Width64bits THEN RowError
           ELSE LET row == Take(rest, rowLength - Width64bits)
                IN  IF Len(row) < Width16bits THEN RowPanic
                    ELSE LET k == readInt16(row)
                         IN  IF Len(k.row) < k.v + Width16bits THEN RowPanic
                             ELSE LET key == Take(k.row, k.v)
                                      nc == readInt16(Drop(k.row, k.v))
                                      ls == readColLengths(nc.row, nc.v, <<>>)
                                      cs == readColumns(ls.row, ls.lengths, <<>>)
                                  IN  IF ls.panic \/ cs.panic THEN RowPanic
                                      ELSE [status |-> "ok", rowLength |-> rowLength,
                                            key |-> key, columns |-> cs.columns]

NoRowIn == [key |-> <<>>, columns |-> <<>>]

rowIdle ==
  /\ rowIn = NoRowIn
  /\ rowBytes = <<>>
  /\ rowOut = NoRow

pureVars == <<avgVars, seqVars, rowVars>>

avgIdle ==
  /\ avgStates = [n \in AvgNames |-> NilSlice]
  /\ avgCalls = <<>>
  /\ avgRet = NoRet

seqIdle ==
  /\ seqs = [n \in SeqNames |-> sequenceNil]
  /\ seqPoints = [n \in SeqNames |-> EmptyBag]

\* no expression state at hand: the row store and the tree use none
pureIdle ==
  /\ avgIdle
  /\ seqIdle
  /\ rowIdle

TheTree == 0

MaxRemovals == 2      \* (ctx, key) removals recorded on the tree under SpecTree

treeInit ==
  /\ tUpdates = <<>>
  /\ tRemoved = {}
  /\ tWalkedOut = {}
  /\ tZero = FALSE

\* the full key of every node: the labels on the path from the root
RECURSIVE PathKeysEdges(_, _, _, _)
PathKeysEdges(es, j, base, acc) ==
  IF j > Len(es) THEN acc
  ELSE PathKeysEdges(es, j + 1, base, [acc EXCEPT ![es[j].target] = base \o es[j].label])

RECURSIVE PathKeysLoop(_, _, _)
PathKeysLoop(bt, todo, acc) ==
  IF todo = <<>> THEN acc
  ELSE LET n == bt.nodes[todo[1]]
       IN  PathKeysLoop(bt, Tail(todo) \o WalkTargets(n),
                        PathKeysEdges(n.edges, 1, acc[todo[1]], acc))

PathKeys(bt) == PathKeysLoop(bt, <<Root>>, [ni \in 1..Len(bt.nodes) |-> <<>>])

DataNodes(bt) == {ni \in 1..Len(bt.nodes) : bt.nodes[ni].data # NilData}

\* the keys some node of the tree stands for, with or without data
NodeKeys(bt) == {PathKeys(bt)[ni] : ni \in 2..Len(bt.nodes)}

\* the point that update number i stores, and the period it falls into
TreePoint(i) == [id |-> i, ts |-> 0]

\* bt.Update(fields, resolution, truncateBefore, key, vals, metadata)
Update(key) ==
  /\ Len(tUpdates) < MaxUpdates
  /\ LET r == TreeUpdate(trees[TheTree], arrays, key, TreePoint(Len(tUpdates) + 1), 0)
     IN  /\ trees' = [trees EXCEPT ![TheTree] = r.bt]
         /\ arrays' = r.arrays
  /\ tUpdates' = Append(tUpdates, key)
  /\ UNCHANGED <<tRemoved, tWalkedOut, tZero>>

\* bt.Walk(ctx, fn), fn returning true exactly for the nodes of keepNodes
Walk(ctx, keepNodes) ==
  /\ tUpdates # <<>>
  /\ LET bt  == trees[TheTree]
         r   == TreeWalk(bt, WalkStart, ctx, keepNodes, <<>>)
         pk  == PathKeys(bt)
         out == {r.seen[j].node : j \in 1..Len(r.seen)} \ keepNodes
     IN  /\ trees' = [trees EXCEPT ![TheTree] = r.bt]
         /\ tWalkedOut' = IF ctx = 0 THEN tWalkedOut
                          ELSE tWalkedOut \cup {<<ctx, pk[ni]>> : ni \in out}
         /\ tZero' = (tZero \/ (ctx = 0 /\ out # {}))
  /\ Cardinality(tRemoved \cup tWalkedOut') <= MaxRemovals
  /\ UNCHANGED <<arrays, tUpdates, tRemoved>>

\* bt.Remove(ctx, fullKey)
Remove(ctx, fullKey) ==
  /\ tUpdates # <<>>
  /\ LET bt == trees[TheTree]
         r  == TreeRemove(bt, ctx, fullKey)
         reached == fullKey \in NodeKeys(bt)
     IN  /\ trees' = [trees EXCEPT ![TheTree] = r.bt]
         /\ tRemoved' = IF ctx # 0 /\ reached /\ <<ctx, fullKey>> \notin tWalkedOut
                        THEN tRemoved \cup {<<ctx, fullKey>>}
                        ELSE tRemoved
         /\ tZero' = (tZero \/ (ctx = 0 /\ reached))
  /\ Cardinality(tRemoved' \cup tWalkedOut) <= MaxRemovals
  /\ UNCHANGED <<arrays, tUpdates, tWalkedOut>>

(***************************************************************************)
(* The row store: rowStore, its three channels and its lock, the inserter  *)
(* (processInserts), the flusher (processFlushes) and a task that runs     *)
(* queries (rowStore.iterate, fileStore.iterate).  The memstores are       *)
(* radix trees on the heap; the tree that processInserts registers under   *)
(* index i is tree i.                                                      *)
(***************************************************************************)
MaxInserts == 2        \* inserts that clients make
MaxQueries == 1        \* queries run, one after the other
MaxClock == 2          \* the clock runs from 1 to MaxClock
RetentionPeriod == 1   \* the table's retention period, in periods
MaxMemStoreBytes == 12 \* opts.maxMemStoreBytes
MaxLatency == 3        \* flush latencies are 0..MaxLatency steps
LatencyStep == 5       \* one step of a flush latency, in units of time.Duration
DurationBits == 6      \* the width of time.Duration (an int64), scaled down
MaxFlushDuration == 0  \* the longest flush of Next, in units of time.Duration
ClockMinutes == 6      \* one period of the clock, in minutes

FlushesCap == 1        \* make(chan *flushRequest, 1)
FlushFinishedCap == 1  \* make(chan time.Duration, 1)
SortEvery == 10        \* flushIdx%10 == 0
OldMinutes == 5        \* now.Sub(file.ModTime()) > 5*time.Minute

NilTree == -2          \* a nil *tree
QCopy == -1            \* the tree that ms.copy() makes for the running query
NoFile == 0            \* the file "" that a row store opened on an empty dir names
Disabled == -1         \* flushTimer.Reset(100000 * time.Hour): "disable flush timer"

\* the largest time.Duration, and a product as the machine computes it
MaxDuration == 2 ^ (DurationBits - 1) - 1

WrapDuration(x) ==
  LET m == x % (2 ^ DurationBits)
  IN  IF m > MaxDuration THEN m - 2 ^ DurationBits ELSE m

\* the latencies that rowStoreOptions can hold, and the ones of Init
Latencies == {l * LatencyStep : l \in 0..MaxLatency}

DefaultOpts == [minFlushLatency |-> LatencyStep,
                maxFlushLatency |-> MaxLatency * LatencyStep,
                maxMemStoreBytes |-> MaxMemStoreBytes]

\* time.Now().Sub(start) of a flush in Next
FlushDurations == 0..MaxFlushDuration

\* the keys that clients insert: <<1>>, <<1, 2>>, ...
RowKeys == {k \in Keys : \A i \in 1..Len(k) : k[i] = i}

\* fs.t.Fields: field i of the table has the name, and the field string, i
TableFields == [i \in 1..NumFields |-> i]

AllFields == 1..NumFields

\* a name, or a field string, of no field of the table
UnknownField == 0

\* the field lists that queries pass to iterate
NoFields == <<>>

FieldLists == {NoFields, <<1>>, <<UnknownField>>}

\* buildShouldInclude, lines 880-910: the indexes that the func it returns
\* includes, or the error
buildShouldInclude(candidates, fields) ==
  LET includedFields == {i \in 1..Len(candidates) :
                           \E j \in 1..Len(fields) : fields[j] = candidates[i]}
  IN  IF Len(fields) = 0 THEN [err |-> FALSE, include |-> AllFields]
      ELSE IF includedFields = {} THEN [err |-> TRUE, include |-> {}]
      ELSE [err |-> FALSE, include |-> includedFields]

\* table.truncateBefore(): now - retention
truncateBefore == now - RetentionPeriod

\* time.Now().UnixNano() as fileStore.iterate reads it: later than the last
\* reading, or the same nanosecond
CtxReadings == {c \in {lastCtx, lastCtx + 1} : c > 0}

\* rs.memStores[i]
MemStoreAt(i) == IF i \in memStores THEN i ELSE NilTree

\* os.IsNotExist(err) of the open in fileStore.iterate
FileMissing(f) == f = NoFile \/ files[f].deleted

\* lines 936-963: a field string of the file's header is the string of no field
\* of the table, and "panic(fmt.Errorf("Unable to find field for %v", ...))"
HeaderPanics(f) ==
  /\ ~FileMissing(f)
  /\ \E i \in 1..Len(files[f].header) :
       \A j \in 1..NumFields : files[f].header[i] # TableFields[j]

\* fileFields after the header is read
FileFields(f) == files[f].header

NoRequest == [idx |-> -1, memstore |-> NilTree, sort |-> FALSE]

insInit ==
  [pc |-> "start", memStoreIdx |-> 0, flushIdx |-> 0, insert |-> 0,
   truncateBefore |-> 0, target |-> 0, field |-> 0, bytesAdded |-> 0,
   newNode |-> FALSE, fr |-> NoRequest, sent |-> 0]

flInit ==
  [pc |-> "idle", req |-> NoRequest, fs |-> NoFile, ctx |-> 0, truncateBefore |-> 0,
   row |-> 0, nodes |-> <<>>, out |-> <<>>, err |-> FALSE, new |-> NoFile,
   opened |-> FALSE]

qInit ==
  [pc |-> "idle", count |-> 0, fs |-> NoFile, memStores |-> <<>>, copyOf |-> NilTree,
   ctx |-> 0, truncateBefore |-> 0, haveFilter |-> FALSE, fields |-> <<>>,
   include |-> {}, fileInclude |-> {}, row |-> 0, s |-> 0,
   nodes |-> <<>>, rows |-> <<>>, result |-> "none",
   snapInserted |-> 0, snapKeys |-> {}, snapCur |-> 0]

rsInit ==
  /\ now = 1
  /\ lastCtx = 0
  /\ memStores = {}
  /\ fileStore = NoFile
  /\ files = <<>>
  /\ flushes = <<>>
  /\ flushFinished = <<>>
  /\ mx = "free"
  /\ flushTimer = Disabled
  /\ ins = insInit
  /\ fl = flInit
  /\ q = qInit
  /\ inserted = <<>>
  /\ crashed = FALSE

\* openRowStore on an empty directory
Init ==
  /\ includeMemStore \in BOOLEAN
  /\ opts = DefaultOpts
  /\ rsInit
  /\ trees = [t \in {} |-> New]
  /\ arrays = <<>>
  /\ treeInit
  /\ pureIdle

(***************************************************************************)
(* fileStore.iterate, the parts that its file pass and its memstore pass   *)
(* share.                                                                  *)
(***************************************************************************)
\* "for _, ms := range memStores { columns2 := ms.remove(ctx, key); ...merge }"
\* from memstore m of the list on.  Without shouldIncludeMemStoreField (it is
\* assigned only when the file exists) the first round calls a nil func.
RECURSIVE MergeFromMemStores(_, _, _, _, _, _, _, _, _, _)
MergeFromMemStores(trs, arrs, key, columns, mems, m, ctx, tb, haveFilter, include) ==
  IF m > Len(mems) THEN [trees |-> trs, columns |-> columns, panic |-> FALSE]
  ELSE IF mems[m] = NilTree \/ ~haveFilter
  THEN [trees |-> trs, columns |-> columns, panic |-> TRUE]
  ELSE LET r == TreeRemove(trs[mems[m]], ctx, key)
           removed == [trs EXCEPT ![mems[m]] = r.bt]
           \* "if i >= len(columns) { ... columns[i] = seq2 }": an index past
           \* the end of the columns read from the file
           beyond == {i \in include : i > Len(columns)}
           merged == IF r.data = NilData THEN columns
                     ELSE [i \in 1..Len(columns) |->
                             IF i \in include
                             THEN SeqMerge(columns[i], arrs[r.data][i], tb)
                             ELSE columns[i]]
       IN  IF r.data # NilData /\ beyond # {}
           THEN [trees |-> removed, columns |-> columns, panic |-> TRUE]
           ELSE MergeFromMemStores(removed, arrs, key, merged,
                                   mems, m + 1, ctx, tb, haveFilter, include)

\* the queue of ms.walk moved on to the next node that fn is called for
RECURSIVE WalkAdvance(_, _, _)
WalkAdvance(bt, nodes, ctx) ==
  IF nodes = <<>> \/ WalkCalls(bt, nodes, ctx) THEN nodes
  ELSE WalkAdvance(bt, WalkVisit(bt, nodes, ctx, TRUE).nodes, ctx)

\* the fn that the memstore pass gives to ms.walk, called for the node at the
\* head of the queue of memstore s: it merges the later memstores into the
\* node's own data array and returns false
WalkCallback(trs, arrs, mems, s, nodes, ctx, tb, haveFilter, include) ==
  LET n == trs[mems[s]].nodes[nodes[1]]
      m == MergeFromMemStores(trs, arrs, n.key, arrs[n.data], mems, s + 1, ctx, tb,
                              haveFilter, include)
      v == WalkVisit(m.trees[mems[s]], nodes, ctx, FALSE)
  IN  [trees |-> [m.trees EXCEPT ![mems[s]] = v.bt],
       arrays |-> [arrs EXCEPT ![n.data] = m.columns],
       nodes |-> v.nodes,
       key |-> n.key, columns |-> m.columns, ref |-> n.data,
       panic |-> m.panic]

\* the write closure of processFlushes: the rows it adds to the new file and
\* the columns it leaves in the slice it was given
write_keepsEmptyRows(key, columns, tb) ==
  LET truncated == [i \in 1..NumFields |-> SeqTruncate(columns[i], tb)]
  IN  [columns |-> truncated,
       rows |-> <<[key |-> key, columns |-> truncated]>>]

write(key, columns, tb) ==
  LET truncated == [i \in 1..NumFields |-> SeqTruncate(columns[i], tb)]
      hasActiveSequence == \E i \in 1..NumFields : truncated[i] # NilSeq
  IN  [columns |-> truncated,
       rows |-> IF hasActiveSequence THEN <<[key |-> key, columns |-> truncated]>> ELSE <<>>]

\* the loop of rowStore.iterate that fills memStoresCopy, from index i on
RECURSIVE iterateCopy(_, _, _, _)
iterateCopy(i, cap, list, copyOf) ==
  IF i >= cap THEN [list |-> list, copyOf |-> copyOf, panic |-> FALSE]
  ELSE LET onCurrentMemStore == i = Cardinality(memStores) - 1
           ms == MemStoreAt(i)
       IN  IF onCurrentMemStore
           THEN IF ms = NilTree
                THEN [list |-> list, copyOf |-> copyOf, panic |-> TRUE]
                ELSE iterateCopy(i + 1, cap, Append(list, QCopy), ms)
           ELSE iterateCopy(i + 1, cap, Append(list, ms), copyOf)

(***************************************************************************)
(* processInserts.                                                         *)
(***************************************************************************)
chanVars == <<flushes, flushFinished>>
diskVars == <<fileStore, files>>
clockVars == <<includeMemStore, opts, now, lastCtx>>

\* lines 579-584: the first memstore is registered, without the lock
InserterStart ==
  /\ ~crashed
  /\ ins.pc = "start"
  /\ trees' = (0 :> New) @@ trees
  /\ memStores' = memStores \cup {0}
  /\ flushTimer' = opts.maxFlushLatency
  /\ ins' = [ins EXCEPT !.pc = "select"]
  /\ UNCHANGED <<arrays, treeVars, pureVars, clockVars, diskVars, chanVars, mx, fl, q, inserted, crashed>>

\* "case insert := <-rs.inserts": a client's rowStore.insert() hands over its
\* insert and returns; truncateBefore is read.  Clients make limit inserts.
InsertReceiveUpTo(limit, key, ts) ==
  /\ ~crashed
  /\ ins.pc = "select"
  /\ Len(inserted) < limit
  /\ inserted' = Append(inserted, [key |-> key,
                                   point |-> [id |-> Len(inserted) + 1, ts |-> ts],
                                   idx |-> ins.memStoreIdx])
  /\ ins' = [ins EXCEPT !.pc = "lock", !.insert = Len(inserted) + 1,
                        !.truncateBefore = truncateBefore]
  /\ UNCHANGED <<heapVars, treeVars, pureVars, clockVars, memStores, diskVars, chanVars, mx,
                 flushTimer, fl, q, crashed>>

InsertReceive(key, ts) == InsertReceiveUpTo(MaxInserts, key, ts)

\* rs.mx.Lock() and the start of currentMemStore.update: Tree.doUpdate finds
\* or makes the node, node.doUpdate grows its data
InsertLock ==
  /\ ~crashed
  /\ ins.pc = "lock"
  /\ mx = "free"
  /\ mx' = "inserter"
  /\ LET i == inserted[ins.insert]
         s == TreeDoUpdate(trees[ins.memStoreIdx], Root, i.key, i.key, 1)
         g == nodeGrowData(s.bt, arrays, s.target)
     IN  /\ trees' = [trees EXCEPT ![ins.memStoreIdx] = g.bt]
         /\ arrays' = g.arrays
         /\ ins' = [ins EXCEPT !.pc = "fields", !.target = s.target, !.field = 1,
                               !.bytesAdded = s.bytesAdded, !.newNode = s.newNode]
  /\ UNCHANGED <<treeVars, pureVars, clockVars, memStores, diskVars, chanVars, flushTimer,
                 fl, q, inserted, crashed>>

\* InsertField without the test of line 613: the inserter goes back to its
\* select whatever the memstore's size
InsertField_noThreshold ==
  /\ ~crashed
  /\ ins.pc = "fields"
  /\ LET i == inserted[ins.insert]
         bt == trees[ins.memStoreIdx]
         ref == bt.nodes[ins.target].data
         added == ins.bytesAdded
                    + fieldBytesAdded(arrays, ref, ins.field, i.point, ins.truncateBefore)
         updated == TreeAccount(bt, added, ins.newNode)
     IN  /\ arrays' = nodeUpdateField(arrays, ref, ins.field, i.point, ins.truncateBefore)
         /\ IF ins.field < NumFields
            THEN /\ ins' = [ins EXCEPT !.field = @ + 1, !.bytesAdded = added]
                 /\ UNCHANGED <<trees, mx>>
            ELSE /\ trees' = [trees EXCEPT ![ins.memStoreIdx] = updated]
                 /\ mx' = "free"
                 /\ ins' = [ins EXCEPT
                              !.pc = "select",
                              !.insert = 0, !.target = 0, !.field = 0,
                              !.bytesAdded = 0, !.newNode = FALSE]
  /\ UNCHANGED <<treeVars, pureVars, clockVars, memStores, diskVars, chanVars, flushTimer,
                 fl, q, inserted, crashed>>

\* one round of the field loop of node.doUpdate; after the last field the tail
\* of Tree.Update, rs.mx.Unlock() and the test of line 613
InsertField ==
  /\ ~crashed
  /\ ins.pc = "fields"
  /\ LET i == inserted[ins.insert]
         bt == trees[ins.memStoreIdx]
         ref == bt.nodes[ins.target].data
         added == ins.bytesAdded
                    + fieldBytesAdded(arrays, ref, ins.field, i.point, ins.truncateBefore)
         updated == TreeAccount(bt, added, ins.newNode)
     IN  /\ arrays' = nodeUpdateField(arrays, ref, ins.field, i.point, ins.truncateBefore)
         /\ IF ins.field < NumFields
            THEN /\ ins' = [ins EXCEPT !.field = @ + 1, !.bytesAdded = added]
                 /\ UNCHANGED <<trees, mx>>
            ELSE /\ trees' = [trees EXCEPT ![ins.memStoreIdx] = updated]
                 /\ mx' = "free"
                 /\ ins' = [ins EXCEPT
                              !.pc = IF TreeBytes(updated) >= opts.maxMemStoreBytes
                                     THEN "flush" ELSE "select",
                              !.insert = 0, !.target = 0, !.field = 0,
                              !.bytesAdded = 0, !.newNode = FALSE]
  /\ UNCHANGED <<treeVars, pureVars, clockVars, memStores, diskVars, chanVars, flushTimer,
                 fl, q, inserted, crashed>>

\* "case <-flushTimer.C"
TimerFires ==
  /\ ~crashed
  /\ ins.pc = "select"
  /\ flushTimer # Disabled
  /\ ins' = [ins EXCEPT !.pc = "flush"]
  /\ UNCHANGED <<heapVars, treeVars, pureVars, clockVars, memStores, diskVars, chanVars, mx,
                 flushTimer, fl, q, inserted, crashed>>

\* flush() with flushIdx++ ahead of the test for an empty memstore
Flush_countsEmptyAttempts ==
  /\ ~crashed
  /\ ins.pc = "flush"
  /\ flushTimer' = Disabled
  /\ IF TreeLength(trees[ins.memStoreIdx]) = 0
     THEN /\ ins' = [ins EXCEPT !.pc = "select", !.flushIdx = @ + 1]
          /\ UNCHANGED <<trees, memStores>>
     ELSE /\ mx = "free"
          /\ trees' = ((ins.memStoreIdx + 1) :> New) @@ trees
          /\ memStores' = memStores \cup {ins.memStoreIdx + 1}
          /\ ins' = [ins EXCEPT !.pc = "send",
                                !.fr = [idx |-> ins.memStoreIdx,
                                        memstore |-> ins.memStoreIdx,
                                        sort |-> ins.flushIdx % SortEvery = 0],
                                !.flushIdx = @ + 1,
                                !.memStoreIdx = @ + 1]
  /\ UNCHANGED <<arrays, treeVars, pureVars, clockVars, diskVars, chanVars, mx, fl, q,
                 inserted, crashed>>

\* flush() that sends its request before rs.mx.Unlock()
Flush_sendsUnderLock ==
  /\ ~crashed
  /\ ins.pc = "flush"
  /\ flushTimer' = Disabled
  /\ IF TreeLength(trees[ins.memStoreIdx]) = 0
     THEN /\ ins' = [ins EXCEPT !.pc = "select"]
          /\ UNCHANGED <<trees, memStores, mx>>
     ELSE /\ mx = "free"
          /\ mx' = "inserter"
          /\ trees' = ((ins.memStoreIdx + 1) :> New) @@ trees
          /\ memStores' = memStores \cup {ins.memStoreIdx + 1}
          /\ ins' = [ins EXCEPT !.pc = "send",
                                !.fr = [idx |-> ins.memStoreIdx,
                                        memstore |-> ins.memStoreIdx,
                                        sort |-> ins.flushIdx % SortEvery = 0],
                                !.flushIdx = @ + 1,
                                !.memStoreIdx = @ + 1]
  /\ UNCHANGED <<arrays, treeVars, pureVars, clockVars, diskVars, chanVars, fl, q,
                 inserted, crashed>>

\* flush(), lines 589-602: the timer is put off; an empty memstore is left
\* alone, any other is retired and a new one registered under the lock
Flush ==
  /\ ~crashed
  /\ ins.pc = "flush"
  /\ flushTimer' = Disabled
  /\ IF TreeLength(trees[ins.memStoreIdx]) = 0
     THEN /\ ins' = [ins EXCEPT !.pc = "select"]
          /\ UNCHANGED <<trees, memStores>>
     ELSE /\ mx = "free"
          /\ trees' = ((ins.memStoreIdx + 1) :> New) @@ trees
          /\ memStores' = memStores \cup {ins.memStoreIdx + 1}
          /\ ins' = [ins EXCEPT !.pc = "send",
                                !.fr = [idx |-> ins.memStoreIdx,
                                        memstore |-> ins.memStoreIdx,
                                        sort |-> ins.flushIdx % SortEvery = 0],
                                !.flushIdx = @ + 1,
                                !.memStoreIdx = @ + 1]
  /\ UNCHANGED <<arrays, treeVars, pureVars, clockVars, diskVars, chanVars, mx, fl, q,
                 inserted, crashed>>

\* "rs.flushes <- fr", line 603
SendFlush ==
  /\ ~crashed
  /\ ins.pc = "send"
  /\ Len(flushes) < FlushesCap
  /\ flushes' = Append(flushes, ins.fr)
  /\ ins' = [ins EXCEPT !.pc = "select", !.fr = NoRequest, !.sent = @ + 1]
  /\ UNCHANGED <<heapVars, treeVars, pureVars, clockVars, memStores, diskVars, flushFinished, mx,
                 flushTimer, fl, q, inserted, crashed>>

\* FlushWait without its lower clamp
FlushWait_noLowerClamp(flushDuration) ==
  LET flushWait == WrapDuration(flushDuration * 10)
  IN  IF flushWait > opts.maxFlushLatency THEN opts.maxFlushLatency
      ELSE flushWait

\* lines 619-624: flushWait := flushDuration * 10, clamped
FlushWait(flushDuration) ==
  LET flushWait == WrapDuration(flushDuration * 10)
  IN  IF flushWait > opts.maxFlushLatency THEN opts.maxFlushLatency
      ELSE IF flushWait < opts.minFlushLatency THEN opts.minFlushLatency
      ELSE flushWait

\* "case flushDuration := <-rs.flushFinished": the timer is set again
ReceiveFlushFinished ==
  /\ ~crashed
  /\ ins.pc = "select"
  /\ flushFinished # <<>>
  /\ flushFinished' = Tail(flushFinished)
  /\ flushTimer' = FlushWait(Head(flushFinished))
  /\ UNCHANGED <<heapVars, treeVars, pureVars, clockVars, memStores, diskVars, flushes, mx,
                 ins, fl, q, inserted, crashed>>

(***************************************************************************)
(* processFlushes.                                                         *)
(***************************************************************************)
\* "for req := range rs.flushes" up to the open of the current file in
\* fs.iterate: lines 653-708, 784-787, 874-918
FlusherStart ==
  /\ ~crashed
  /\ fl.pc = "idle"
  /\ flushes # <<>>
  /\ mx = "free"
  /\ flushes' = Tail(flushes)
  /\ \E ctx \in CtxReadings :
       /\ lastCtx' = ctx
       /\ fl' = [flInit EXCEPT !.pc = IF HeaderPanics(fileStore) THEN "panic"
                                      ELSE IF FileMissing(fileStore) THEN "walk"
                                      ELSE "file",
                               !.req = Head(flushes), !.fs = fileStore, !.ctx = ctx,
                               !.opened = ~FileMissing(fileStore),
                               !.truncateBefore = truncateBefore,
                               !.row = 1, !.nodes = WalkStart]
  /\ crashed' = HeaderPanics(fileStore)
  /\ UNCHANGED <<heapVars, treeVars, pureVars, includeMemStore, opts, now, memStores, diskVars,
                 flushFinished, mx, flushTimer, ins, q, inserted>>

\* one round of "Read from file", lines 975-1047, with write as onRow
FlusherFileRow ==
  /\ ~crashed
  /\ fl.pc = "file"
  /\ LET rows == files[fl.fs].rows
     IN  IF fl.row > Len(rows)
         THEN /\ fl' = [fl EXCEPT !.pc = "walk"]
              /\ UNCHANGED trees
         ELSE LET row == rows[fl.row]
                  includesAtLeastOneColumn == \E i \in 1..NumFields : row.columns[i] # NilSeq
                  m == MergeFromMemStores(trees, arrays, row.key, row.columns,
                                          <<fl.req.memstore>>, 1, fl.ctx,
                                          fl.truncateBefore, TRUE, AllFields)
                  w == write(row.key, m.columns, fl.truncateBefore)
              IN  /\ trees' = m.trees
                  /\ fl' = [fl EXCEPT !.row = @ + 1,
                                      !.out = IF includesAtLeastOneColumn
                                              THEN @ \o w.rows ELSE @]
  /\ UNCHANGED <<arrays, treeVars, pureVars, clockVars, memStores, diskVars, chanVars, mx,
                 flushTimer, ins, q, inserted, crashed>>

\* a read of the file fails (lines 920, 940, 945, 982, 990): fs.iterate returns
\* the error, and line 787 drops it
FlusherReadError ==
  /\ ~crashed
  /\ fl.pc = "file"
  /\ fl' = [fl EXCEPT !.pc = "close", !.err = TRUE]
  /\ UNCHANGED <<heapVars, treeVars, pureVars, clockVars, memStores, diskVars, chanVars, mx,
                 flushTimer, ins, q, inserted, crashed>>

\* one call of fn in "Read remaining stuff from mem stores", lines 1051-1075,
\* with write as onRow; the pass ends when the walk runs out of nodes
FlusherWalk ==
  /\ ~crashed
  /\ fl.pc = "walk"
  /\ LET mems == <<fl.req.memstore>>
         nodes == WalkAdvance(trees[fl.req.memstore], fl.nodes, fl.ctx)
     IN  IF nodes = <<>>
         THEN /\ fl' = [fl EXCEPT !.pc = "close", !.nodes = <<>>]
              /\ UNCHANGED heapVars
         ELSE LET cb == WalkCallback(trees, arrays, mems, 1, nodes, fl.ctx,
                                     fl.truncateBefore, fl.opened, AllFields)
                  w  == write(cb.key, cb.columns, fl.truncateBefore)
              IN  /\ trees' = cb.trees
                  /\ arrays' = [cb.arrays EXCEPT ![cb.ref] = w.columns]
                  /\ fl' = [fl EXCEPT !.nodes = cb.nodes, !.out = @ \o w.rows]
  /\ UNCHANGED <<treeVars, pureVars, clockVars, memStores, diskVars, chanVars, mx,
                 flushTimer, ins, q, inserted, crashed>>

\* the memstore indexes whose flush a file holds, and whether every flush
\* behind the file read all of its predecessor
Covered(f) == IF f = NoFile THEN {} ELSE files[f].covers

Complete(f) == IF f = NoFile THEN TRUE ELSE files[f].complete

\* a file as processFlushes leaves it in opts.dir.  replacedAt, deletedAt and
\* deletedAsCurrent record when rs.fileStore moved on from the file and when
\* and in what role removeOldFiles deleted it.
NewFile(rows, sort, covers, complete) ==
  [header |-> TableFields,
   rows |-> rows, sorted |-> sort, covers |-> covers, complete |-> complete,
   modTime |-> now, deleted |-> FALSE,
   replacedAt |-> 0, deletedAt |-> 0, deletedAsCurrent |-> FALSE]

\* lines 788-812: the new file is closed and renamed into opts.dir
FlusherClose ==
  /\ ~crashed
  /\ fl.pc = "close"
  /\ files' = Append(files,
                     NewFile(fl.out, fl.req.sort,
                             (IF fl.opened THEN Covered(fl.fs) ELSE {}) \cup {fl.req.idx},
                             IF fl.opened THEN Complete(fl.fs) /\ ~fl.err
                             ELSE fl.fs = NoFile))
  /\ fl' = [fl EXCEPT !.pc = "swap", !.new = Len(files) + 1]
  /\ UNCHANGED <<heapVars, treeVars, pureVars, clockVars, memStores, fileStore, chanVars, mx,
                 flushTimer, ins, q, inserted, crashed>>

\* lines 814-817: under the lock, the memstore is dropped and the new file
\* becomes the current one
FlusherSwap ==
  /\ ~crashed
  /\ fl.pc = "swap"
  /\ mx = "free"
  /\ memStores' = memStores \ {fl.req.idx}
  /\ fileStore' = fl.new
  /\ files' = IF fileStore = NoFile THEN files
              ELSE [files EXCEPT ![fileStore].replacedAt = now]
  /\ fl' = [fl EXCEPT !.pc = "notify"]
  /\ UNCHANGED <<heapVars, treeVars, pureVars, clockVars, chanVars, mx,
                 flushTimer, ins, q, inserted, crashed>>

\* "flushDuration := time.Now().Sub(start); rs.flushFinished <- flushDuration",
\* lines 819-820, for a flush that took one of durations
FlusherNotifyOf(durations) ==
  /\ ~crashed
  /\ fl.pc = "notify"
  /\ Len(flushFinished) < FlushFinishedCap
  /\ \E flushDuration \in durations :
       flushFinished' = Append(flushFinished, flushDuration)
  /\ fl' = flInit
  /\ UNCHANGED <<heapVars, treeVars, pureVars, clockVars, memStores, diskVars, flushes, mx,
                 flushTimer, ins, q, inserted, crashed>>

FlusherNotify == FlusherNotifyOf(FlushDurations)

(***************************************************************************)
(* A query: rowStore.iterate takes the snapshot under the read lock, then  *)
(* fileStore.iterate passes rows to onValue.  q.rows lists the rows that   *)
(* onValue was given, as it saw them.                                      *)
(***************************************************************************)
\* a panic ends the process
Panic ==
  /\ crashed' = TRUE
  /\ UNCHANGED <<heapVars, treeVars, pureVars, clockVars, memStores, diskVars, chanVars, mx,
                 flushTimer, ins, fl, q, inserted>>

\* lines 631-649 and 874-972, for a query of the fields given
QueryStart(fields) ==
  /\ ~crashed
  /\ q.pc \in {"idle", "done"}
  /\ q.count < MaxQueries
  /\ mx = "free"
  /\ LET memStoresToInclude == IF includeMemStore THEN Cardinality(memStores)
                               ELSE Cardinality(memStores) - 1
         snap == iterateCopy(0, memStoresToInclude, <<>>, NilTree)
         forMemStores == buildShouldInclude(TableFields, fields)
         forFile == buildShouldInclude(FileFields(fileStore), fields)
     IN  IF memStoresToInclude < 0 \/ snap.panic
         THEN Panic
         ELSE /\ \E ctx \in CtxReadings :
                   /\ lastCtx' = ctx
                   /\ q' = [qInit EXCEPT !.pc = IF FileMissing(fileStore) THEN "walk"
                                                ELSE IF HeaderPanics(fileStore) THEN "panic"
                                                ELSE IF forMemStores.err \/ forFile.err
                                                THEN "done"
                                                ELSE "file",
                                         !.result = IF ~FileMissing(fileStore)
                                                       /\ ~HeaderPanics(fileStore)
                                                       /\ (forMemStores.err \/ forFile.err)
                                                    THEN "error" ELSE "none",
                                         !.fields = fields,
                                         !.include = IF FileMissing(fileStore) THEN {}
                                                     ELSE forMemStores.include,
                                         !.fileInclude = IF FileMissing(fileStore) THEN {}
                                                         ELSE forFile.include,
                                         !.count = q.count + 1,
                                         !.fs = fileStore,
                                         !.memStores = snap.list,
                                         !.copyOf = snap.copyOf,
                                         !.ctx = ctx,
                                         !.truncateBefore = truncateBefore,
                                         !.haveFilter = ~FileMissing(fileStore),
                                         !.row = 1, !.s = 1, !.nodes = WalkStart,
                                         !.snapInserted = Len(inserted),
                                         !.snapKeys = memStores,
                                         !.snapCur = ins.memStoreIdx]
              /\ trees' = IF snap.copyOf = NilTree THEN trees
                          ELSE (QCopy :> TreeCopy(trees[snap.copyOf])) @@ trees
              /\ crashed' = HeaderPanics(fileStore)
              /\ UNCHANGED <<arrays, treeVars, pureVars, includeMemStore, opts, now, memStores, diskVars,
                             chanVars, mx, flushTimer, ins, fl, inserted>>

\* one round of "Read from file", lines 975-1047
QueryFileRow ==
  /\ ~crashed
  /\ q.pc = "file"
  /\ LET rows == files[q.fs].rows
     IN  IF q.row > Len(rows)
         THEN /\ q' = [q EXCEPT !.pc = "walk"]
              /\ UNCHANGED <<heapVars, treeVars, pureVars, clockVars, memStores, diskVars, chanVars,
                             mx, flushTimer, ins, fl, inserted, crashed>>
         ELSE LET row == rows[q.row]
                  columns == [i \in 1..Len(row.columns) |->
                                IF i \in q.fileInclude THEN row.columns[i] ELSE NilSeq]
                  includesAtLeastOneColumn == \E i \in 1..Len(columns) : columns[i] # NilSeq
                  m == MergeFromMemStores(trees, arrays, row.key, columns,
                                          q.memStores, 1, q.ctx, q.truncateBefore, TRUE,
                                          q.include)
              IN  IF m.panic
                  THEN Panic
                  ELSE /\ trees' = m.trees
                       /\ q' = [q EXCEPT !.row = @ + 1,
                                         !.rows = IF includesAtLeastOneColumn
                                                  THEN Append(@, [key |-> row.key,
                                                                  columns |-> m.columns])
                                                  ELSE @]
                       /\ UNCHANGED <<arrays, treeVars, pureVars, clockVars, memStores, diskVars,
                                      chanVars, mx, flushTimer, ins, fl, inserted, crashed>>

\* a read of the file fails: fs.iterate returns the error to the caller
QueryReadError ==
  /\ ~crashed
  /\ q.pc = "file"
  /\ q' = [q EXCEPT !.pc = "done", !.result = "error"]
  /\ UNCHANGED <<heapVars, treeVars, pureVars, clockVars, memStores, diskVars, chanVars, mx,
                 flushTimer, ins, fl, inserted, crashed>>

\* "Read remaining stuff from mem stores", lines 1051-1075: one call of fn, or
\* the step to the next memstore of the list, or the return at its end
QueryWalk ==
  /\ ~crashed
  /\ q.pc = "walk"
  /\ IF q.s > Len(q.memStores)
     THEN /\ q' = [q EXCEPT !.pc = "done", !.result = "ok"]
          /\ UNCHANGED <<heapVars, treeVars, pureVars, clockVars, memStores, diskVars, chanVars,
                         mx, flushTimer, ins, fl, inserted, crashed>>
     ELSE IF q.memStores[q.s] = NilTree
     THEN Panic
     ELSE LET nodes == WalkAdvance(trees[q.memStores[q.s]], q.nodes, q.ctx)
          IN  IF nodes = <<>>
              THEN /\ q' = [q EXCEPT !.s = @ + 1, !.nodes = WalkStart]
                   /\ UNCHANGED <<heapVars, treeVars, pureVars, clockVars, memStores, diskVars,
                                  chanVars, mx, flushTimer, ins, fl, inserted, crashed>>
              ELSE LET cb == WalkCallback(trees, arrays, q.memStores, q.s, nodes, q.ctx,
                                          q.truncateBefore, q.haveFilter, q.include)
                   IN  IF cb.panic
                       THEN Panic
                       ELSE /\ trees' = cb.trees
                            /\ arrays' = cb.arrays
                            /\ q' = [q EXCEPT !.nodes = cb.nodes,
                                              !.rows = Append(@, [key |-> cb.key,
                                                                  columns |-> cb.columns])]
                            /\ UNCHANGED <<treeVars, pureVars, clockVars, memStores, diskVars,
                                           chanVars, mx, flushTimer, ins, fl, inserted,
                                           crashed>>

\* time passes
Tick ==
  /\ ~crashed
  /\ now < MaxClock
  /\ now' = now + 1
  /\ UNCHANGED <<heapVars, treeVars, pureVars, includeMemStore, opts, lastCtx, memStores, diskVars,
                 chanVars, mx, flushTimer, ins, fl, q, inserted, crashed>>

\* the periods a client stamps a point with: the current one or the one before
PointTimes == {now - 1, now}

(***************************************************************************)
(* removeOldFiles.                                                         *)
(***************************************************************************)
\* ioutil.ReadDir(rs.opts.dir): the files of the directory.  They sort by name,
\* which is the order in which they were renamed into it.
Listing == {f \in 1..Len(files) : ~files[f].deleted}

\* files[len(files)-1] of that list
LastListed == CHOOSE f \in Listing : \A g \in Listing : g <= f

\* now.Sub(file.ModTime()) > 5*time.Minute
IsOld(f) == (now - files[f].modTime) * ClockMinutes > OldMinutes

\* one round of the loop of removeOldFiles, lines 835-855
RemoveOldFiles ==
  /\ ~crashed
  /\ files' = [f \in 1..Len(files) |->
                IF f \in Listing /\ f # LastListed /\ IsOld(f)
                THEN [files[f] EXCEPT !.deleted = TRUE, !.deletedAt = now,
                                      !.deletedAsCurrent = (fileStore = f)]
                ELSE files[f]]
  /\ UNCHANGED <<heapVars, treeVars, pureVars, clockVars, memStores, fileStore, chanVars, mx,
                 flushTimer, ins, fl, q, inserted, crashed>>

Next ==
  \/ InserterStart
  \/ \E key \in RowKeys : \E ts \in PointTimes : InsertReceive(key, ts)
  \/ InsertLock
  \/ InsertField
  \/ TimerFires
  \/ Flush
  \/ SendFlush
  \/ ReceiveFlushFinished
  \/ FlusherStart
  \/ FlusherFileRow
  \/ FlusherReadError
  \/ FlusherWalk
  \/ FlusherClose
  \/ FlusherSwap
  \/ FlusherNotify
  \/ QueryStart(NoFields)
  \/ QueryFileRow
  \/ QueryReadError
  \/ QueryWalk
  \/ Tick

vars == <<heapVars, treeVars, rsVars, pureVars>>

Spec == Init /\ [][Next]_vars

(***************************************************************************)
(* SpecTree: one tree, no row store around it.                             *)
(***************************************************************************)
InitTree ==
  /\ trees = (TheTree :> New)
  /\ arrays = <<>>
  /\ treeInit
  /\ pureIdle
  /\ includeMemStore = FALSE
  /\ opts = DefaultOpts
  /\ rsInit

NextTree ==
  \/ \E key \in Keys : Update(key) /\ UNCHANGED <<rsVars, pureVars>>
  \/ \E ctx \in Ctxs : \E keepNodes \in SUBSET DataNodes(trees[TheTree]) :
       Walk(ctx, keepNodes) /\ UNCHANGED <<rsVars, pureVars>>
  \/ \E ctx \in Ctxs : \E key \in Keys : Remove(ctx, key) /\ UNCHANGED <<rsVars, pureVars>>

SpecTree == InitTree /\ [][NextTree]_vars

(***************************************************************************)
(* Properties of the radix tree, stated on tree TheTree under SpecTree.    *)
(* A call is judged by what it returns in the state at hand; the history   *)
(* of the calls made so far is in tUpdates, tRemoved and tWalkedOut.       *)
(***************************************************************************)
Present == {tUpdates[i] : i \in 1..Len(tUpdates)}

\* the data array a key must hold: in every column, the points of its updates
ExpectedData(k) ==
  [f \in 1..NumFields |->
     SetToBag({TreePoint(i) : i \in {j \in 1..Len(tUpdates) : tUpdates[j] = k}})]

\* the calls of fn that bt.Walk(ctx, fn) makes (fn returning true)
WalkSeen(bt, ctx) == TreeWalk(bt, WalkStart, ctx, DataNodes(bt), <<>>).seen

\* the tree after bt.Walk(ctx, fn) with fn returning false / true on every node
AfterWalk(bt, ctx, keep) ==
  TreeWalk(bt, WalkStart, ctx, IF keep THEN DataNodes(bt) ELSE {}, <<>>).bt

\* Walk(ctx, fn) calls fn for the node of key k, with k's data
SeenKeyData(bt, ctx) ==
  LET seen == WalkSeen(bt, ctx)
      pk   == PathKeys(bt)
  IN  {<<pk[seen[j].node], arrays[seen[j].data]>> : j \in 1..Len(seen)}

SeesKey(bt, ctx, k) == <<k, ExpectedData(k)>> \in SeenKeyData(bt, ctx)

ReturnsData(r, k) == r.data # NilData /\ arrays[r.data] = ExpectedData(k)

Gone(ctx, k) == <<ctx, k>> \in tRemoved \cup tWalkedOut

OtherCtxs(ctx) == (1..MaxCtx) \ {ctx}

\* C7: after any sequence of Update calls, Walk(0, fn) calls fn exactly once for
\* each distinct key that was updated and for nothing else, and passes that
\* key's full key bytes together with its data.
C7_WalkPassesEachKeyOnce ==
  LET seen == WalkSeen(trees[TheTree], 0)
  IN  /\ Len(seen) = Cardinality(Present)
      /\ {<<seen[j].key, arrays[seen[j].data]>> : j \in 1..Len(seen)}
           = {<<k, ExpectedData(k)>> : k \in Present}

\* What does hold of Walk(0, fn): one call per updated key, made for the node
\* that stands for the key and with the key's data; the key passed aside.
WalkVisitsEachNodeOnce ==
  LET bt == trees[TheTree]
      seen == WalkSeen(bt, 0)
  IN  /\ Len(seen) = Cardinality(Present)
      /\ SeenKeyData(bt, 0) = {<<k, ExpectedData(k)>> : k \in Present}

\* C8: for ctx # 0 and a key k present in the tree, the first Remove(ctx, k)
\* returns k's data; every later Remove(ctx, k) returns nil and every later
\* Walk(ctx, fn) does not call fn for k; Walk and Remove under any other ctx
\* still see k with its data.
C8_RemoveHidesKeyForItsCtx ==
  LET bt == trees[TheTree]
  IN  \A ctx \in 1..MaxCtx :
        LET seenNow == SeenKeyData(bt, ctx)
        IN  \A k \in Present :
              LET r == TreeRemove(bt, ctx, k)
                  row == <<k, ExpectedData(k)>>
              IN  /\ ~Gone(ctx, k) =>
                       /\ ReturnsData(r, k)
                       /\ row \in seenNow
                       /\ TreeRemove(r.bt, ctx, k).data = NilData
                       /\ row \notin SeenKeyData(r.bt, ctx)
                       /\ \A c2 \in OtherCtxs(ctx) :
                            ~Gone(c2, k) => /\ row \in SeenKeyData(r.bt, c2)
                                            /\ TreeRemove(r.bt, c2, k).data = r.data
                  /\ <<ctx, k>> \in tRemoved =>
                       /\ r.data = NilData
                       /\ row \notin seenNow

\* a Remove(ctx, k) has taken a present key out of the view of ctx, and another
\* ctx has not removed it
C8_Witness ==
  \E ctx \in 1..MaxCtx : \E k \in Present :
    /\ <<ctx, k>> \in tRemoved
    /\ \E c2 \in OtherCtxs(ctx) : ~Gone(c2, k)

\* C9: in Walk(ctx, fn) with ctx # 0, a node for which fn returns false is
\* never passed to fn by a later Walk with the same ctx and a later Remove
\* with that ctx reports it absent; a node for which fn returns true stays
\* visible to later walks with that ctx; walks with another ctx are unaffected.
C9_WalkRemovesWhatFnRejects ==
  LET bt == trees[TheTree]
  IN  \A ctx \in 1..MaxCtx :
        LET kept     == AfterWalk(bt, ctx, TRUE)
            rejected == AfterWalk(bt, ctx, FALSE)
            seenNow  == SeenKeyData(bt, ctx)
            seenKept == SeenKeyData(kept, ctx)
            seenRejected == SeenKeyData(rejected, ctx)
        IN  /\ \A k \in Present :
                 LET row == <<k, ExpectedData(k)>>
                 IN  /\ <<ctx, k>> \in tWalkedOut =>
                          /\ row \notin seenNow
                          /\ TreeRemove(bt, ctx, k).data = NilData
                     /\ ~Gone(ctx, k) =>
                          /\ row \in seenNow
                          /\ row \in seenKept
                          /\ row \notin seenRejected
                          /\ TreeRemove(rejected, ctx, k).data = NilData
            /\ \A c2 \in Ctxs \ {ctx} :
                 /\ WalkSeen(rejected, c2) = WalkSeen(bt, c2)
                 /\ WalkSeen(kept, c2) = WalkSeen(bt, c2)

\* a Walk has rejected one present key under ctx and kept another
C9_Witness ==
  \E ctx \in 1..MaxCtx : \E k, k2 \in Present :
    /\ <<ctx, k>> \in tWalkedOut
    /\ k2 # k
    /\ ~Gone(ctx, k2)

\* C10: ctx = 0 never records or honours a removal: Walk(0, fn) with fn
\* returning false and Remove(0, k) leave every node's removedFor as it is,
\* Remove(0, k) returns k's data every time, and Walk(0) visits every node that
\* has data whatever was removed under other ctx values.
C10_CtxZeroNeverRemoves ==
  LET bt == trees[TheTree]
      seen == WalkSeen(bt, 0)
  IN  /\ \A ni \in 1..Len(bt.nodes) :
           \A j \in 1..Len(bt.nodes[ni].removedFor) : bt.nodes[ni].removedFor[j] # 0
      /\ AfterWalk(bt, 0, FALSE) = bt
      /\ {seen[j].node : j \in 1..Len(seen)} = DataNodes(bt)
      /\ \A k \in Keys : TreeRemove(bt, 0, k).bt = bt
      /\ \A k \in Present :
           /\ ReturnsData(TreeRemove(bt, 0, k), k)
           /\ SeesKey(bt, 0, k)

\* calls with ctx = 0 have asked for removals, on a tree with keys that other
\* contexts have removed
C10_Witness ==
  /\ tZero
  /\ \E ctx \in 1..MaxCtx : \E k \in Present : Gone(ctx, k)

\* what bt.Walk(ctx, fn) hands to fn, call by call, the data arrays being arrs
Delivers(bt, arrs, ctx) ==
  LET seen == WalkSeen(bt, ctx)
  IN  [j \in 1..Len(seen) |-> <<seen[j].key, arrs[seen[j].data]>>]

\* C11: Copy() returns a tree whose Walk(0) delivers the keys and data that the
\* original delivers at the time of the copy, with the same Length and Bytes and
\* without removal marks; afterwards an Update of a new key in one tree, and
\* removals recorded under any ctx in one tree, leave what walks of the other
\* tree deliver as it was.
C11_CopyIsIndependentSnapshot ==
  LET bt == trees[TheTree]
      cp == TreeCopy(bt)
      atCopy == Delivers(bt, arrays, 0)
      newPoint == TreePoint(MaxUpdates + 1)
  IN  /\ Delivers(cp, arrays, 0) = atCopy
      /\ TreeLength(cp) = TreeLength(bt)
      /\ TreeBytes(cp) = TreeBytes(bt)
      /\ \A ni \in 1..Len(cp.nodes) : cp.nodes[ni].removedFor = <<>>
      /\ \A k \in Keys \ Present :
           LET inOriginal == TreeUpdate(bt, arrays, k, newPoint, 0)
               inCopy     == TreeUpdate(cp, arrays, k, newPoint, 0)
           IN  \A c \in Ctxs :
                 /\ Delivers(cp, inOriginal.arrays, c) = atCopy
                 /\ Delivers(bt, inCopy.arrays, c) = Delivers(bt, arrays, c)
      /\ \A ctx \in 1..MaxCtx :
           LET walkedOut == AfterWalk(cp, ctx, FALSE)
           IN  /\ Delivers(cp, arrays, ctx) = atCopy
               /\ Delivers(walkedOut, arrays, ctx) = <<>>
               /\ \A c \in Ctxs \ {ctx} : Delivers(walkedOut, arrays, c) = atCopy
               /\ \A k \in Present :
                    LET removed == TreeRemove(cp, ctx, k).bt
                    IN  \A c \in Ctxs \ {ctx} : Delivers(removed, arrays, c) = atCopy

\* the tree holds several keys and removal marks when the copy is made
C11_Witness ==
  /\ Cardinality(Present) >= 2
  /\ \E ni \in 1..Len(trees[TheTree].nodes) : trees[TheTree].nodes[ni].removedFor # <<>>

\* C12: after any sequence of Update calls, Length() is the number of distinct
\* keys that hold data in the tree.
C12_LengthCountsKeysWithData ==
  TreeLength(trees[TheTree]) = Cardinality(Present)

(***************************************************************************)
(* Properties of the row store, stated under Spec.                         *)
(***************************************************************************)
\* a query has taken its snapshot
SnapshotTaken == q.pc \in {"file", "walk", "done"}

\* the entries of the snapshot's memstore list
Listed == {q.memStores[j] : j \in 1..Len(q.memStores)}

\* memstore m is in the snapshot's list, itself or as the copy made of it
InList(m) == m \in Listed \/ (QCopy \in Listed /\ q.copyOf = m)

\* row r holds point p in every column
RowHolds(r, p) == \A f \in 1..NumFields : BagIn(p, r.columns[f])

\* C1: with IncludeMemStoreInQuery, every insert whose rowStore.insert() had
\* returned before the query took its snapshot is reflected in the rows the
\* query delivers (the insert's point is in the row of its key), as far as the
\* retention period keeps it.
C1_QueryReflectsReturnedInserts ==
  (includeMemStore /\ q.pc = "done" /\ q.result = "ok") =>
    \A i \in 1..q.snapInserted :
      inserted[i].point.ts >= q.truncateBefore =>
        \E j \in 1..Len(q.rows) : /\ q.rows[j].key = inserted[i].key
                                  /\ RowHolds(q.rows[j], inserted[i].point)

\* C2: a query never sees a partial row: a row it is given reflects an insert
\* in all of its fields or in none.
C2_NoPartialRow ==
  \A j \in 1..Len(q.rows) : \A i \in 1..Len(inserted) : \A f, g \in 1..NumFields :
    BagIn(inserted[i].point, q.rows[j].columns[f])
      <=> BagIn(inserted[i].point, q.rows[j].columns[g])

\* C3: every snapshot accounts for every retired memstore exactly once: the
\* memstore is in the snapshot's list and not flushed into the snapshot's file,
\* or flushed into the file and not in the list.
C3_SnapshotHoldsRetiredMemStoreOnce ==
  SnapshotTaken =>
    \A m \in 0..(q.snapCur - 1) : InList(m) # (m \in Covered(q.fs))

\* the column f that file number f0 holds for key k
FileColumn(f0, k, f) ==
  LET rows == IF f0 = NoFile THEN <<>> ELSE files[f0].rows
      js   == {j \in 1..Len(rows) : rows[j].key = k}
  IN  IF js = {} THEN NilSeq ELSE rows[CHOOSE j \in js : TRUE].columns[f]

FileKeys(f0) ==
  IF f0 = NoFile THEN {} ELSE {files[f0].rows[j].key : j \in 1..Len(files[f0].rows)}

\* the points that clients inserted for key k while memstore m was current
MemStorePoints(m, k) ==
  SetToBag({inserted[i].point :
              i \in {j \in 1..Len(inserted) : inserted[j].idx = m /\ inserted[j].key = k}})

MemStoreKeys(m) ==
  {inserted[i].key : i \in {j \in 1..Len(inserted) : inserted[j].idx = m}}

\* C4: a flush writes exactly one row for every key of the prior file or of the
\* retired memstore that has a column with a period not yet expired, and each
\* column of the row is the merge of the prior file's column and the memstore's
\* column for that key.  Stated for the flushes that met no I/O error, in runs
\* where no query has touched the memstores.
C4_FlushMergesFileAndMemStore ==
  (fl.pc = "swap" /\ ~fl.err /\ q.count = 0) =>
    LET rows == files[fl.new].rows
        merged(k) == [f \in 1..NumFields |->
                        SeqMerge(FileColumn(fl.fs, k, f), MemStorePoints(fl.req.idx, k),
                                 fl.truncateBefore)]
        keys == {k \in FileKeys(fl.fs) \cup MemStoreKeys(fl.req.idx) :
                   \E f \in 1..NumFields : merged(k)[f] # NilSeq}
    IN  /\ \A i, j \in 1..Len(rows) : rows[i].key = rows[j].key => i = j
        /\ {rows[j] : j \in 1..Len(rows)} = {[key |-> k, columns |-> merged(k)] : k \in keys}

\* C5: the memstore list of a snapshot holds every registered retired memstore
\* and, iff IncludeMemStoreInQuery, a copy of the memstore taking writes; no
\* entry is nil and no registered memstore is left out.
C5_SnapshotListsRegisteredMemStores ==
  SnapshotTaken =>
    /\ NilTree \notin Listed
    /\ Listed \ {QCopy} = q.snapKeys \ {q.snapCur}
    /\ Len(q.memStores) = Cardinality(Listed)
    /\ q.snapCur \in q.snapKeys =>
         /\ QCopy \in Listed <=> includeMemStore
         /\ QCopy \in Listed => q.copyOf = q.snapCur

\* C6: a flush that met an I/O error never makes its file the current one: the
\* current file always comes from flushes that read all of their prior file.
C6_CurrentFileIsComplete == Complete(fileStore)

\* a flush request for memstore m has been made: the inserter is sending it, it
\* is in rs.flushes, the flusher works on it, or the current file holds it
RequestMade(m) ==
  \/ ins.pc = "send" /\ ins.fr.idx = m
  \/ \E j \in 1..Len(flushes) : flushes[j].idx = m
  \/ fl.pc # "idle" /\ fl.req.idx = m
  \/ \E f \in 1..Len(files) : m \in files[f].covers

\* C14: whenever the inserter waits in its select for the next event, or has
\* taken an insert that it has not applied yet, the current memstore's bytes()
\* is below maxMemStoreBytes; a memstore whose bytes() reached the threshold is
\* either about to be retired by flush(), with no insert accepted in between, or
\* retired with its flush request made.
C14_ThresholdForcesFlush ==
  /\ ins.pc \in {"select", "lock"} =>
        TreeBytes(trees[ins.memStoreIdx]) < MaxMemStoreBytes
  /\ \A m \in DOMAIN trees :
        (m >= 0 /\ TreeBytes(trees[m]) >= MaxMemStoreBytes) =>
          \/ m = ins.memStoreIdx /\ ins.pc = "flush"
          \/ m < ins.memStoreIdx /\ RequestMade(m)

\* an insert has brought a memstore to the threshold, and the request for the
\* retired memstore is being sent
C14_Witness ==
  /\ ins.pc = "send"
  /\ TreeBytes(trees[ins.fr.memstore]) >= MaxMemStoreBytes
  /\ TreeLength(trees[ins.memStoreIdx]) = 0

(***************************************************************************)
(* The inserter and the flusher over a long run of inserts of one key, to  *)
(* follow flushIdx past SortEvery.                                         *)
(***************************************************************************)
MaxSortInserts == 11   \* inserts that clients make in NextSort
MaxSortBytes == 0      \* they make one when the memstore's bytes() is at most this

NextSort ==
  \/ InserterStart
  \/ /\ ins.pc = "select"
     /\ TreeBytes(trees[ins.memStoreIdx]) <= MaxSortBytes
     /\ InsertReceiveUpTo(MaxSortInserts, <<1>>, now)
  \/ InsertLock
  \/ InsertField
  \/ TimerFires
  \/ Flush
  \/ SendFlush
  \/ ReceiveFlushFinished
  \/ FlusherStart
  \/ FlusherFileRow
  \/ FlusherWalk
  \/ FlusherClose
  \/ FlusherSwap
  \/ FlusherNotify

SpecSort == Init /\ [][NextSort]_vars

\* C15: the n-th flush request that the inserter sends, n counted from 0,
\* carries sort = (n mod 10 = 0): it does while the inserter holds it to send
\* it and when it is in rs.flushes.  flush() on an empty memstore makes no
\* request, registers no new memstore and leaves flushIdx alone: flushIdx is
\* the number of requests made, memStoreIdx moves with it, and every retired
\* memstore holds a key.
C15_EverySortEveryth ==
  /\ ins.pc = "send" => ins.fr.sort = (ins.sent % SortEvery = 0)
  /\ flushes # <<>> => flushes[Len(flushes)].sort = ((ins.sent - 1) % SortEvery = 0)
  /\ ins.flushIdx = ins.sent + (IF ins.pc = "send" THEN 1 ELSE 0)
  /\ ins.memStoreIdx = ins.flushIdx
  /\ \A m \in DOMAIN trees : (m >= 0 /\ m < ins.memStoreIdx) => TreeLength(trees[m]) > 0

\* the request number SortEvery is in rs.flushes, sorted, and the one before
\* it was not
C15_Witness ==
  /\ ins.sent = SortEvery + 1
  /\ flushes # <<>>
  /\ flushes[1].sort
  /\ flushes[1].idx = SortEvery

(***************************************************************************)
(* Flush scheduling: the inserter and the flusher, without queries.  The   *)
(* goroutines of processInserts and processFlushes run whenever they can   *)
(* take a step, and a timer that is set to a latency fires; clients need   *)
(* not insert, and a read of the file need not fail.                       *)
(***************************************************************************)
NextFlush ==
  \/ InserterStart
  \/ \E key \in RowKeys : \E ts \in PointTimes : InsertReceive(key, ts)
  \/ InsertLock
  \/ InsertField
  \/ TimerFires
  \/ Flush
  \/ SendFlush
  \/ ReceiveFlushFinished
  \/ FlusherStart
  \/ FlusherFileRow
  \/ FlusherReadError
  \/ FlusherWalk
  \/ FlusherClose
  \/ FlusherSwap
  \/ FlusherNotify

FairFlush ==
  /\ WF_vars(InserterStart)
  /\ WF_vars(InsertLock)
  /\ WF_vars(InsertField)
  /\ WF_vars(TimerFires)
  /\ WF_vars(Flush)
  /\ WF_vars(SendFlush)
  /\ WF_vars(ReceiveFlushFinished)
  /\ WF_vars(FlusherStart)
  /\ WF_vars(FlusherFileRow)
  /\ WF_vars(FlusherWalk)
  /\ WF_vars(FlusherClose)
  /\ WF_vars(FlusherSwap)
  /\ WF_vars(FlusherNotify)

SpecFlush == Init /\ [][NextFlush]_vars /\ FairFlush

\* the current memstore holds a key while the inserter waits in its select
HoldsKey(m) ==
  /\ ins.pc = "select"
  /\ ins.memStoreIdx = m
  /\ TreeLength(trees[m]) > 0

\* C13: whenever the current memstore holds at least one key, the flush timer
\* eventually fires and a flush request for that memstore is made, with no
\* further insert and below the byte threshold too.
C13_TimerFlushesNonEmptyMemStore ==
  \A m \in 0..MaxInserts : HoldsKey(m) ~> RequestMade(m)

(***************************************************************************)
(* The flush wait over every pair of latencies and every duration that a  *)
(* time.Duration holds.                                                    *)
(***************************************************************************)
InitClamp ==
  /\ includeMemStore = FALSE
  /\ opts \in [minFlushLatency : Latencies, maxFlushLatency : Latencies,
             maxMemStoreBytes : {MaxMemStoreBytes}]
  /\ rsInit
  /\ trees = [t \in {} |-> New]
  /\ arrays = <<>>
  /\ treeInit
  /\ pureIdle

NextClamp ==
  \/ InserterStart
  \/ InsertReceive(<<1>>, now)
  \/ InsertLock
  \/ InsertField
  \/ TimerFires
  \/ Flush
  \/ SendFlush
  \/ ReceiveFlushFinished
  \/ FlusherStart
  \/ FlusherFileRow
  \/ FlusherWalk
  \/ FlusherClose
  \/ FlusherSwap
  \/ FlusherNotifyOf(0..MaxDuration)

SpecClamp == InitClamp /\ [][NextClamp]_vars

\* the step of "case flushDuration := <-rs.flushFinished"
FlushFinishedReceived ==
  /\ flushFinished # <<>>
  /\ flushFinished' = Tail(flushFinished)

\* 10*d clamped into [minFlushLatency, maxFlushLatency], over the integers
Clamped(w) ==
  IF w > opts.maxFlushLatency THEN opts.maxFlushLatency
  ELSE IF w < opts.minFlushLatency THEN opts.minFlushLatency
  ELSE w

\* C16 as stated: on every flush-finished notification with duration d >= 0
\* the timer is set to 10*d clamped into [minFlushLatency, maxFlushLatency],
\* never below minFlushLatency and never above maxFlushLatency, for every pair
\* of latencies.
C16_WaitIsTenTimesDurationClamped ==
  [][FlushFinishedReceived =>
       /\ flushTimer' = Clamped(10 * Head(flushFinished))
       /\ flushTimer' >= opts.minFlushLatency
       /\ flushTimer' <= opts.maxFlushLatency]_vars

\* C16, amended: when minFlushLatency <= maxFlushLatency, the timer is set to a
\* wait within [minFlushLatency, maxFlushLatency] for every duration d >= 0, and
\* to 10*d clamped into that interval when 10*d does not exceed the largest
\* time.Duration.
C16_WaitWithinLatencies ==
  [][(FlushFinishedReceived /\ opts.minFlushLatency <= opts.maxFlushLatency) =>
       /\ flushTimer' >= opts.minFlushLatency
       /\ flushTimer' <= opts.maxFlushLatency
       /\ 10 * Head(flushFinished) <= MaxDuration =>
             flushTimer' = Clamped(10 * Head(flushFinished))]_vars

\* a flush has finished and the timer waits for ten times its duration, which
\* lies strictly between the two latencies
C16_Witness ==
  /\ fileStore # NoFile
  /\ flushFinished = <<>>
  /\ opts.minFlushLatency < flushTimer
  /\ flushTimer < opts.maxFlushLatency

(***************************************************************************)
(* The sweeper beside the inserter and the flusher, with the clock.        *)
(***************************************************************************)
NextSweep ==
  \/ InserterStart
  \/ InsertReceive(<<1>>, now)
  \/ InsertLock
  \/ InsertField
  \/ TimerFires
  \/ Flush
  \/ SendFlush
  \/ ReceiveFlushFinished
  \/ FlusherStart
  \/ FlusherFileRow
  \/ FlusherWalk
  \/ FlusherClose
  \/ FlusherSwap
  \/ FlusherNotify
  \/ RemoveOldFiles
  \/ Tick

SpecSweep == Init /\ [][NextSweep]_vars

\* C17: a file is never deleted earlier than 5 minutes after it was replaced
\* as the current filestore.
C17_DeletedAfterGracePeriod ==
  \A f \in 1..Len(files) :
    (files[f].deleted /\ ~files[f].deletedAsCurrent) =>
      /\ files[f].replacedAt # 0
      /\ (files[f].deletedAt - files[f].replacedAt) * ClockMinutes >= OldMinutes

\* C18: the sweeper never deletes the file that rs.fileStore references.
C18_CurrentFileIsNeverDeleted ==
  fileStore # NoFile => ~files[fileStore].deleted

(***************************************************************************)
(* Queries with field lists, on a row store opened on an empty directory   *)
(* or on one that holds a file of an earlier run, whose header may name a  *)
(* field that the table has no more.                                       *)
(***************************************************************************)
MaxFieldInserts == 1   \* inserts that clients make in NextFields

\* the headers of the file found in the directory
Headers == {TableFields, [TableFields EXCEPT ![1] = UnknownField]}

\* that file: one row for key 1, a point in each column, written before now
OldFile(header) ==
  [header |-> header,
   rows |-> <<[key |-> <<1>>,
               columns |-> [i \in 1..NumFields |-> SetToBag({[id |-> 0, ts |-> 1]})]]>>,
   sorted |-> TRUE, covers |-> {}, complete |-> TRUE,
   modTime |-> 0, deleted |-> FALSE,
   replacedAt |-> 0, deletedAt |-> 0, deletedAsCurrent |-> FALSE]

\* openRowStore, lines 541-552 and 553-565
InitFields ==
  /\ includeMemStore \in BOOLEAN
  /\ opts = DefaultOpts
  /\ now = 1
  /\ lastCtx = 0
  /\ memStores = {}
  /\ \/ /\ files = <<>>
        /\ fileStore = NoFile
     \/ \E header \in Headers :
          /\ files = <<OldFile(header)>>
          /\ fileStore = 1
  /\ flushes = <<>>
  /\ flushFinished = <<>>
  /\ mx = "free"
  /\ flushTimer = Disabled
  /\ ins = insInit
  /\ fl = flInit
  /\ q = qInit
  /\ inserted = <<>>
  /\ crashed = FALSE
  /\ trees = [t \in {} |-> New]
  /\ arrays = <<>>
  /\ treeInit
  /\ pureIdle

NextFields ==
  \/ InserterStart
  \/ InsertReceiveUpTo(MaxFieldInserts, <<1>>, now)
  \/ InsertLock
  \/ InsertField
  \/ TimerFires
  \/ Flush
  \/ SendFlush
  \/ ReceiveFlushFinished
  \/ FlusherStart
  \/ FlusherFileRow
  \/ FlusherWalk
  \/ FlusherClose
  \/ FlusherSwap
  \/ FlusherNotify
  \/ \E fields \in FieldLists : QueryStart(fields)
  \/ QueryFileRow
  \/ QueryWalk

SpecFields == InitFields /\ [][NextFields]_vars

\* the query that runs, or ran last, named fields and none is a table field
NoFieldKnown ==
  /\ q.pc # "idle"
  /\ q.fields # NoFields
  /\ \A j \in 1..Len(q.fields) : \A i \in 1..NumFields : q.fields[j] # TableFields[i]

\* C19: iterate with a field list that is not empty and names no field of the
\* table delivers no row and returns an error, with or without a file.
C19_UnknownFieldsAreAnError ==
  NoFieldKnown =>
    /\ q.rows = <<>>
    /\ q.pc = "done" => q.result = "error"

\* the file that the query opened has a header with a field string of no
\* field of the table
ReadsUnknownHeader ==
  /\ q.pc # "idle"
  /\ q.fs # NoFile
  /\ \E i \in 1..NumFields : files[q.fs].header[i] = UnknownField

\* C20: when the header of the file lists a field string of no table field,
\* iterate still reads the file, and the rows it delivers have that column
\* dropped and the other columns of the file in their places.
C20_UnknownHeaderFieldIsDropped ==
  ReadsUnknownHeader =>
    /\ q.pc # "panic"
    /\ ~crashed
    /\ \A j \in 1..Len(q.rows) : \A i \in 1..NumFields :
         files[q.fs].header[i] = UnknownField => q.rows[j].columns[i] = NilSeq
(***************************************************************************)
(* SpecAvgMerge: avg.merge on its own.  The states x, y and z are any avg  *)
(* states updates and merges can have left (unset, or set with a count and *)
(* a total), u is the unset state; merge combines two of the states at     *)
(* hand into a freshly made destination.                                   *)
(***************************************************************************)
rowStoreIdle ==
  /\ includeMemStore = FALSE
  /\ opts = DefaultOpts
  /\ rsInit
  /\ trees = [t \in {} |-> New]
  /\ arrays = <<>>
  /\ treeInit

AvgCounts == {1, 2}
AvgTotals == {0, 1, Pow2(MantissaBits)}

AvgStateOf(count, total) ==
  [avgSave(MakeSlice(avgEncodedWidth), count, total) EXCEPT !.off = 0]

AvgInputs ==
  {MakeSlice(avgEncodedWidth)}
    \cup {AvgStateOf(count, total) : count \in AvgCounts, total \in AvgTotals}

\* the merges made, in this order: <<destination, x, y>>
MergePlan ==
  << <<"xy", "x", "y">>, <<"yx", "y", "x">>, <<"yz", "y", "z">>,
     <<"xy_z", "xy", "z">>, <<"x_yz", "x", "yz">>,
     <<"xu", "x", "u">>, <<"ux", "u", "x">> >>

InitAvgMerge ==
  /\ rowStoreIdle
  /\ \E x \in AvgInputs, y \in AvgInputs, z \in AvgInputs :
       avgStates = [n \in AvgNames |->
                      CASE n = "x" -> x
                        [] n = "y" -> y
                        [] n = "z" -> z
                        [] n = "u" -> MakeSlice(avgEncodedWidth)
                        [] OTHER -> NilSlice]
  /\ avgCalls = <<>>
  /\ avgRet = NoRet
  /\ seqIdle
  /\ rowIdle

AvgMerge(d, x, y) ==
  /\ avgStates[d] = NilSlice
  /\ avgStates[x] # NilSlice
  /\ avgStates[y] # NilSlice
  /\ LET r == avgMerge(MakeSlice(avgEncodedWidth), avgStates[x], avgStates[y])
     IN  /\ avgStates' = [avgStates EXCEPT ![d] = [r.b EXCEPT !.off = 0]]
         /\ avgRet' = [op |-> "merge", dst |-> d, x |-> x, y |-> y,
                       b |-> r.b, remainX |-> r.remainX, remainY |-> r.remainY]
  /\ UNCHANGED <<avgCalls, seqVars, rowVars, heapVars, treeVars, rsVars>>

NextAvgMerge ==
  \E i \in DOMAIN MergePlan :
    /\ \A j \in 1..(i - 1) : avgStates[MergePlan[j][1]] # NilSlice
    /\ AvgMerge(MergePlan[i][1], MergePlan[i][2], MergePlan[i][3])

SpecAvgMerge == InitAvgMerge /\ [][NextAvgMerge]_vars

\* what an avg state holds: wasSet, count, total
AvgTriple(b) == LET l == avgLoad(b) IN <<l.wasSet, l.count, l.total>>

\* C21: avg.merge of x and y into a zeroed destination: when exactly one of
\* them was set the destination gets that side's (count, total) and is set;
\* when both were set it gets (countX+countY, totalX+totalY) and is set; when
\* neither was set it stays unset (all zero); and the destination and both
\* inputs come back advanced past exactly this node's 17 bytes.
C21_MergeCases ==
  avgRet.op = "merge" =>
    LET x == AvgTriple(avgStates[avgRet.x])
        y == AvgTriple(avgStates[avgRet.y])
        d == AvgTriple(avgStates[avgRet.dst])
    IN  /\ (x[1] /\ ~y[1]) => d = x
        /\ (~x[1] /\ y[1]) => d = y
        /\ (x[1] /\ y[1]) => d = <<TRUE, FAdd(x[2], y[2]), FAdd(x[3], y[3])>>
        /\ (~x[1] /\ ~y[1]) => avgStates[avgRet.dst] = MakeSlice(avgEncodedWidth)
        /\ avgWidth = 17
        /\ avgRet.b.off = avgWidth
        /\ avgRet.remainX.off = avgStates[avgRet.x].off + avgWidth
        /\ avgRet.remainY.off = avgStates[avgRet.y].off + avgWidth
        /\ avgRet.b.arr = avgStates[avgRet.dst].arr
        /\ avgRet.remainX.arr = avgStates[avgRet.x].arr
        /\ avgRet.remainY.arr = avgStates[avgRet.y].arr

\* a merge of two set states with different counts and totals has returned
C21_Witness ==
  /\ avgRet.op = "merge"
  /\ avgRet.dst = "xy"
  /\ AvgTriple(avgStates["x"]) = <<TRUE, 1, 1>>
  /\ AvgTriple(avgStates["y"]) = <<TRUE, 2, Pow2(MantissaBits)>>

Merged(n) == avgStates[n] # NilSlice

MergeCommutes == Merged("yx") => AvgTriple(avgStates["xy"]) = AvgTriple(avgStates["yx"])

UnsetIsIdentity ==
  Merged("ux") => /\ AvgTriple(avgStates["xu"]) = AvgTriple(avgStates["x"])
                  /\ AvgTriple(avgStates["ux"]) = AvgTriple(avgStates["x"])

MergeAssociates ==
  Merged("x_yz") => AvgTriple(avgStates["xy_z"]) = AvgTriple(avgStates["x_yz"])

\* no float64 addition made in merging x, y and z either way has rounded
SumsAreExact ==
  LET x == AvgTriple(avgStates["x"])
      y == AvgTriple(avgStates["y"])
      z == AvgTriple(avgStates["z"])
  IN  \A i \in {2, 3} : /\ IsFloat(x[i] + y[i])
                         /\ IsFloat(y[i] + z[i])
                         /\ IsFloat(x[i] + y[i] + z[i])

\* C22 as stated: avg.merge is commutative and associative on (wasSet,
\* count, total) for all states x, y, z, and the unset state is its identity.
C22_MergeCommutesAndAssociates ==
  /\ MergeCommutes
  /\ UnsetIsIdentity
  /\ MergeAssociates

\* C22, amended: avg.merge is commutative and the unset state is its
\* identity; it is associative for the states x, y, z whose counts and totals
\* add up without float64 rounding.
C22_MergeAssociatesWhenExact ==
  /\ MergeCommutes
  /\ UnsetIsIdentity
  /\ SumsAreExact => MergeAssociates

\* three set states have been merged both ways, with exact sums
C22_Witness ==
  /\ Merged("x_yz")
  /\ Merged("ux")
  /\ SumsAreExact
  /\ \A n \in {"x", "y", "z"} : AvgTriple(avgStates[n])[1]
  /\ AvgTriple(avgStates["x"]) # AvgTriple(avgStates["y"])

(***************************************************************************)
(* SpecAvgUpdate: one accumulator, a, made zeroed; update is called on it  *)
(* with whatever the wrapped expression reports (its value, and whether    *)
(* the params had one), and get reads it.                                  *)
(***************************************************************************)
WrappedValues == {0, 1, 3}

InitAvgUpdate ==
  /\ rowStoreIdle
  /\ avgStates = [n \in AvgNames |->
                    IF n = "a" THEN MakeSlice(avgEncodedWidth) ELSE NilSlice]
  /\ avgCalls = <<>>
  /\ avgRet = NoRet
  /\ seqIdle
  /\ rowIdle

AvgUpdate(wrappedValue, updated) ==
  /\ Len(avgCalls) < MaxAvgUpdates
  /\ LET r == avgUpdate(avgStates["a"], wrappedValue, updated)
     IN  /\ avgStates' = [avgStates EXCEPT !["a"] = r.b]
         /\ avgRet' = [op |-> "update", before |-> avgStates["a"], remain |-> r.remain,
                       value |-> r.value, updated |-> r.updated]
  /\ avgCalls' = Append(avgCalls, [value |-> wrappedValue, updated |-> updated])
  /\ UNCHANGED <<seqVars, rowVars, heapVars, treeVars, rsVars>>

AvgGet ==
  /\ LET r == avgGet(avgStates["a"])
     IN  avgRet' = [op |-> "get", value |-> r.value, wasSet |-> r.wasSet,
                    remain |-> r.remain]
  /\ UNCHANGED <<avgStates, avgCalls, seqVars, rowVars, heapVars, treeVars, rsVars>>

NextAvgUpdate ==
  \/ \E wrappedValue \in WrappedValues : \E updated \in BOOLEAN :
       AvgUpdate(wrappedValue, updated)
  \/ AvgGet

SpecAvgUpdate == InitAvgUpdate /\ [][NextAvgUpdate]_vars

\* the calls in which the wrapped expression reported updated
UpdatingCalls == SelectSeq(avgCalls, LAMBDA c : c.updated)

\* their values, added up in float64 in the order of the calls
RECURSIVE TotalOf(_)
TotalOf(calls) ==
  IF calls = <<>> THEN 0
  ELSE FAdd(TotalOf(SubSeq(calls, 1, Len(calls) - 1)), calls[Len(calls)].value)

\* C23: after any sequence of avg.update calls on a zeroed state, count is
\* the number of calls in which the wrapped expression reported updated and
\* total is the sum of their wrapped values; get returns (total/count, true)
\* once a call has updated and (0, false) before; a call that does not
\* update leaves this node's state bytes as they were.
C23_UpdateAccumulates ==
  LET l == avgLoad(avgStates["a"])
      n == Len(UpdatingCalls)
  IN  /\ l.wasSet = (n > 0)
      /\ l.count = n
      /\ l.total = TotalOf(UpdatingCalls)
      /\ avgRet.op = "get" =>
            /\ avgRet.wasSet = (n > 0)
            /\ avgRet.value = IF n > 0 THEN FDiv(TotalOf(UpdatingCalls), n) ELSE 0
      /\ avgRet.op = "update" =>
            /\ avgRet.updated = avgCalls[Len(avgCalls)].updated
            /\ ~avgRet.updated =>
                  SliceBytes(avgStates["a"], 0, avgWidth)
                    = SliceBytes(avgRet.before, 0, avgWidth)

\* get has read an accumulator after two updating calls with different
\* values and a call that did not update
C23_Witness ==
  /\ avgRet.op = "get"
  /\ Len(UpdatingCalls) >= 2
  /\ Len(avgCalls) > Len(UpdatingCalls)
  /\ UpdatingCalls[1].value # UpdatingCalls[2].value
  /\ avgRet.value > 0

(***************************************************************************)
(* SpecSeq: two sequences, a and b, are updated with points, nothing being *)
(* old enough to truncate (seq_test.go passes a truncateBefore far in the  *)
(* past, or zeroTime); then they are merged, a into b and b into a.        *)
(***************************************************************************)
PointTs == Resolution..MaxSeqTs
PointValues == 1..MaxSeqValue

InitSeq ==
  /\ rowStoreIdle
  /\ avgIdle
  /\ seqIdle
  /\ rowIdle

Unmerged == seqPoints["ab"] = EmptyBag /\ seqPoints["ba"] = EmptyBag

SequenceUpdate(n, ts, v, before) ==
  /\ Unmerged
  /\ BagCardinality(seqPoints["a"]) + BagCardinality(seqPoints["b"]) < MaxSeqUpdates
  /\ seqs' = [seqs EXCEPT ![n] = sequenceUpdate(@, ts, v, before)]
  /\ seqPoints' = [seqPoints EXCEPT ![n] = @ (+) SetToBag({[ts |-> ts, v |-> v]})]
  /\ UNCHANGED <<avgVars, rowVars, heapVars, treeVars, rsVars>>

SequenceMerge(d, x, y, before) ==
  /\ seqPoints[d] = EmptyBag
  /\ seqPoints[x] (+) seqPoints[y] # EmptyBag
  /\ seqs' = [seqs EXCEPT ![d] = sequenceMerge(seqs[x], seqs[y], before)]
  /\ seqPoints' = [seqPoints EXCEPT ![d] = seqPoints[x] (+) seqPoints[y]]
  /\ UNCHANGED <<avgVars, rowVars, heapVars, treeVars, rsVars>>

NextSeq ==
  \/ \E n \in {"a", "b"} : \E ts \in PointTs : \E v \in PointValues :
       SequenceUpdate(n, ts, v, ZeroTime)
  \/ SequenceMerge("ab", "a", "b", ZeroTime)
  \/ SequenceMerge("ba", "b", "a", ZeroTime)

SpecSeq == InitSeq /\ [][NextSeq]_vars

\* the periods the points of a bag fall into, and what they add up to in one
BucketsOf(points) == {AlignDown(p.ts) : p \in BagToSet(points)}

RECURSIVE SumOfPoints(_, _)
SumOfPoints(points, ps) ==
  IF ps = {} THEN 0
  ELSE LET p == CHOOSE x \in ps : TRUE
       IN  p.v * CopiesIn(p, points) + SumOfPoints(points, ps \ {p})

SumIn(points, t) == SumOfPoints(points, {p \in BagToSet(points) : AlignDown(p.ts) = t})

MaxOf(S) == CHOOSE x \in S : \A y \in S : y <= x
MinOf(S) == CHOOSE x \in S : \A y \in S : y >= x

\* C24: for a SUM expression and no truncation, the sequence built by update
\* from any points, in any order, starts at the greatest aligned timestamp,
\* has (start - smallest aligned timestamp) / resolution + 1 periods, and
\* valueAt(i) is the sum of the points of period i, (0, unset) where none fell.
C24_UpdateBuckets ==
  \A n \in {"a", "b"} :
    IF seqPoints[n] = EmptyBag THEN seqs[n] = sequenceNil
    ELSE LET ts == BucketsOf(seqPoints[n])
         IN  /\ seqs[n].start = MaxOf(ts)
             /\ numPeriods(seqs[n]) = (MaxOf(ts) - MinOf(ts)) \div Resolution + 1
             /\ \A i \in 0..(numPeriods(seqs[n]) - 1) :
                  LET t == seqs[n].start - i * Resolution
                  IN  /\ ValueAt(seqs[n], i) =
                           IF t \in ts THEN <<SumIn(seqPoints[n], t), TRUE>>
                                       ELSE <<0, FALSE>>
                      /\ valueAtTime(seqs[n], t) = ValueAt(seqs[n], i)

\* a has three periods, the middle one empty and another one with two points
C24_Witness ==
  /\ numPeriods(seqs["a"]) = 3
  /\ ValueAt(seqs["a"], 1) = <<0, FALSE>>
  /\ BagCardinality(seqPoints["a"]) = 3
  /\ ValueAt(seqs["a"], 0)[1] # ValueAt(seqs["a"], 2)[1]

MergedBothWays == seqPoints["ab"] # EmptyBag /\ seqPoints["ba"] # EmptyBag

\* C26: merging a into b and b into a gives the same start, the same number
\* of periods and, period by period, the same value and wasSet flag, whether
\* the two overlap, one lies within the other, they are disjoint, or one is
\* empty.
C26_SequenceMergeCommutes ==
  MergedBothWays =>
    /\ seqs["ab"].start = seqs["ba"].start
    /\ numPeriods(seqs["ab"]) = numPeriods(seqs["ba"])
    /\ \A i \in 0..(numPeriods(seqs["ab"]) - 1) :
         ValueAt(seqs["ab"], i) = ValueAt(seqs["ba"], i)

\* a and b overlap: b starts within a and reaches further back, and a period
\* holds points of both
C26_Witness ==
  /\ MergedBothWays
  /\ seqs["a"].start > seqs["b"].start
  /\ numPeriods(seqs["ab"]) > numPeriods(seqs["a"])
  /\ numPeriods(seqs["ab"]) > numPeriods(seqs["b"])
  /\ \E t \in BucketsOf(seqPoints["a"]) \cap BucketsOf(seqPoints["b"]) :
       valueAtTime(seqs["ab"], t)[1] = SumIn(seqPoints["a"], t) + SumIn(seqPoints["b"], t)

(***************************************************************************)
(* Retention in the row store, under Spec.                                 *)
(***************************************************************************)
\* no point of seq is earlier than cutoff
Retains(seq, cutoff) == \A p \in BagToSet(seq) : p.ts >= cutoff

RowRetains(row, cutoff) == \A i \in 1..NumFields : Retains(row.columns[i], cutoff)

\* every sequence of the memstores mems and of the file f retains only
\* periods from cutoff on
StoreRetains(mems, trs, arrs, f, fls, cutoff) ==
  /\ \A m \in mems : \A n \in DataNodes(trs[m]) :
       \A i \in 1..NumFields : Retains(arrs[trs[m].nodes[n].data][i], cutoff)
  /\ f # NoFile => \A j \in 1..Len(fls[f].rows) : RowRetains(fls[f].rows[j], cutoff)

\* currentMemStore.update has returned; the flusher has made its file current
UpdateReturns == ins.pc = "fields" /\ ins'.pc # "fields"
FlushSwaps == fl.pc = "swap" /\ fl'.pc = "notify"

FlushedRowsHaveData ==
  FlushSwaps => \A j \in 1..Len(files'[fileStore'].rows) :
                  \E i \in 1..NumFields : files'[fileStore'].rows[j].columns[i] # NilSeq

\* C25 as stated: after any update or flush no sequence in the store, in any
\* memstore or in the current file, retains a period earlier than
\* now - retentionPeriod (as that update or flush read it), and a flush
\* writes no row whose columns are all empty.
C25_StoreRetainsNothingExpired ==
  [][ /\ UpdateReturns =>
           StoreRetains(memStores', trees', arrays', fileStore', files',
                        ins.truncateBefore)
      /\ FlushSwaps =>
           StoreRetains(memStores', trees', arrays', fileStore', files',
                        fl.truncateBefore)
      /\ FlushedRowsHaveData ]_vars

\* C25, amended: the sequences an update writes, and the sequences of the
\* file a flush writes, retain no period earlier than the cutoff
\* now - retentionPeriod which that update or flush read; a flush writes no
\* row whose columns are all empty.
C25_WrittenSequencesRetainNothingExpired ==
  [][ /\ (ins.pc = "fields" /\ ins' # ins) =>
           Retains(arrays'[trees[ins.memStoreIdx].nodes[ins.target].data][ins.field],
                   ins.truncateBefore)
      /\ FlushSwaps =>
           \A j \in 1..Len(files'[fileStore'].rows) :
             RowRetains(files'[fileStore'].rows[j], fl.truncateBefore)
      /\ FlushedRowsHaveData ]_vars

\* a flush has made a file current that holds a row, having dropped a point
\* of its memstore that was older than its cutoff
C25_Witness ==
  /\ fl.pc = "notify"
  /\ Len(files[fileStore].rows) > 0
  /\ \E i \in 1..Len(inserted) :
       /\ inserted[i].idx = fl.req.idx
       /\ inserted[i].point.ts < fl.truncateBefore

(***************************************************************************)
(* SpecRow: the flusher's write puts one row into a file, and the file     *)
(* pass of fileStore.iterate reads it back.                                *)
(***************************************************************************)
RowBytes == {1, 2}
ColumnBytes == {<<>>, <<7>>}

RECURSIVE SeqsUpTo(_, _)
SeqsUpTo(S, n) ==
  IF n = 0 THEN {<<>>}
  ELSE SeqsUpTo(S, n - 1) \cup {Append(x, e) : x \in {y \in SeqsUpTo(S, n - 1) : Len(y) = n - 1}, e \in S}

InitRow ==
  /\ rowStoreIdle
  /\ avgIdle
  /\ seqIdle
  /\ \E key \in SeqsUpTo(RowBytes, MaxRowKeyLen) :
       \E columns \in SeqsUpTo(ColumnBytes, MaxColumns) :
         /\ \E i \in 1..Len(columns) : columns[i] # <<>>
         /\ rowIn = [key |-> key, columns |-> columns]
  /\ rowBytes = <<>>
  /\ rowOut = NoRow

WriteRow ==
  /\ rowBytes = <<>>
  /\ rowBytes' = encodeRow(rowIn.key, rowIn.columns)
  /\ UNCHANGED <<rowIn, rowOut, avgVars, seqVars, heapVars, treeVars, rsVars>>

ReadRow ==
  /\ rowBytes # <<>>
  /\ rowOut = NoRow
  /\ rowOut' = decodeRow(rowBytes)
  /\ UNCHANGED <<rowIn, rowBytes, avgVars, seqVars, heapVars, treeVars, rsVars>>

NextRow == WriteRow \/ ReadRow

SpecRow == InitRow /\ [][NextRow]_vars

RowLengthIsStored ==
  rowBytes # <<>> => Uint64(Take(rowBytes, Width64bits)) = Len(rowBytes)

RowComesBack ==
  /\ rowOut.status = "ok"
  /\ rowOut.key = rowIn.key
  /\ rowOut.columns = rowIn.columns
  /\ rowOut.rowLength = Len(rowBytes)

MaxBackpressureInserts == 4
SmallMemStoreBytes == 1      \* opts.maxMemStoreBytes: every insert fills the memstore

InitBackpressure ==
  /\ includeMemStore = FALSE
  /\ opts = [DefaultOpts EXCEPT !.maxMemStoreBytes = SmallMemStoreBytes]
  /\ rsInit
  /\ trees = [t \in {} |-> New]
  /\ arrays = <<>>
  /\ treeInit
  /\ pureIdle

NextBackpressure ==
  \/ InserterStart
  \/ InsertReceiveUpTo(MaxBackpressureInserts, <<1>>, now)
  \/ InsertLock
  \/ InsertField
  \/ TimerFires
  \/ Flush
  \/ SendFlush
  \/ ReceiveFlushFinished
  \/ FlusherStart
  \/ FlusherFileRow
  \/ FlusherWalk
  \/ FlusherClose
  \/ FlusherSwap
  \/ FlusherNotify

SpecBackpressure == InitBackpressure /\ [][NextBackpressure]_vars /\ FairFlush

\* the inserter is blocked in "rs.flushes <- fr": the channel is full
SendBlocked == ins.pc = "send" /\ Len(flushes) = FlushesCap

\* C28: whenever the inserter is blocked sending a request on the flushes
\* channel, the flusher eventually finishes its flush, sends on flushFinished
\* and takes the next request, and the inserter's send completes.
C28_BlockedSendCompletes == SendBlocked ~> (ins.pc # "send")


(***************************************************************************)
(* SpecIterate: one call of fileStore.iterate that runs alone.  The row    *)
(* store is opened on a directory with a file of an earlier run, clients   *)
(* insert, the inserter retires memstores, and then a query runs with no   *)
(* insert and no flush going on beside it.                                 *)
(***************************************************************************)
MaxIterateInserts == 3

\* the keys inserted: the key of the file's row, a key of no row of the file
\* and a key that extends it
IterateKeys == {<<1>>, <<2>>, <<2, 1>>}

\* the field lists of the query: every field, or the first
IterateFields == {NoFields, <<1>>}

\* openRowStore, lines 541-565
InitIterate ==
  /\ includeMemStore \in BOOLEAN
  /\ opts \in {DefaultOpts, [DefaultOpts EXCEPT !.maxMemStoreBytes = SmallMemStoreBytes]}
  /\ now = 1
  /\ lastCtx = 0
  /\ memStores = {}
  /\ files = <<OldFile(TableFields)>>
  /\ fileStore = 1
  /\ flushes = <<>>
  /\ flushFinished = <<>>
  /\ mx = "free"
  /\ flushTimer = Disabled
  /\ ins = insInit
  /\ fl = flInit
  /\ q = qInit
  /\ inserted = <<>>
  /\ crashed = FALSE
  /\ trees = [t \in {} |-> New]
  /\ arrays = <<>>
  /\ treeInit
  /\ pureIdle

\* no query has been started
BeforeQuery == q.pc = "idle"

\* the inserter is not in the middle of an update
NoUpdateGoingOn == ins.pc \in {"select", "flush", "send"}

NextIterate ==
  \/ InserterStart
  \/ BeforeQuery /\ \E key \in IterateKeys : InsertReceiveUpTo(MaxIterateInserts, key, now)
  \/ BeforeQuery /\ InsertLock
  \/ BeforeQuery /\ InsertField
  \/ BeforeQuery /\ TimerFires
  \/ BeforeQuery /\ Flush
  \/ BeforeQuery /\ SendFlush
  \/ NoUpdateGoingOn /\ \E fields \in IterateFields : QueryStart(fields)
  \/ QueryFileRow
  \/ QueryWalk

SpecIterate == InitIterate /\ [][NextIterate]_vars

(***************************************************************************)
(* What a query may change in the memstores it reads.                      *)
(***************************************************************************)
\* a step of fileStore.iterate on behalf of the query: a round of its file
\* pass or a call of fn in its memstore pass
QueryIterates == q.pc \in {"file", "walk"} /\ q' # q

\* tree t differs between the two states of a step in removal marks only
OnlyMarksChange(t) ==
  /\ trees'[t].bytes = trees[t].bytes
  /\ trees'[t].length = trees[t].length
  /\ Len(trees'[t].nodes) = Len(trees[t].nodes)
  /\ \A ni \in 1..Len(trees[t].nodes) :
       [trees'[t].nodes[ni] EXCEPT !.removedFor = <<>>]
         = [trees[t].nodes[ni] EXCEPT !.removedFor = <<>>]

\* the sequences that the keys of tree t hold, by key
HeldBy(trs, arrs, t) ==
  {<<trs[t].nodes[ni].key, arrs[trs[t].nodes[ni].data]>> :
     ni \in {n \in 1..Len(trs[t].nodes) : trs[t].nodes[n].data # NilData}}

\* C29: a step of fileStore.iterate leaves every memstore as it was, apart
\* from removal marks: every key of every memstore the query was given, and
\* of the original of the memstore it was given a copy of, holds the
\* sequences it held before the step, so that a query as a whole leaves the
\* per-key data of the memstores unchanged.
C29_QueryLeavesMemStoresUnchanged ==
  [][QueryIterates =>
       /\ DOMAIN trees' = DOMAIN trees
       /\ \A t \in DOMAIN trees :
            /\ OnlyMarksChange(t)
            /\ HeldBy(trees', arrays', t) = HeldBy(trees, arrays, t)]_vars


(***************************************************************************)
(* The rows that one call of fileStore.iterate delivers.                   *)
(***************************************************************************)
\* the memstores behind the list the call was given
ListedMemStores ==
  {IF q.memStores[j] = QCopy THEN q.copyOf ELSE q.memStores[j] : j \in 1..Len(q.memStores)}

\* the keys that occur in the file or in a memstore of the list
OccurringKeys ==
  FileKeys(q.fs) \cup UNION {MemStoreKeys(m) : m \in ListedMemStores}

\* column f of key k, merged over the file and the memstores of the list
AllOccurrences(k, f) ==
  FileColumn(q.fs, k, f)
    (+) SetToBag({inserted[i].point :
                    i \in {j \in 1..Len(inserted) : /\ inserted[j].idx \in ListedMemStores
                                                    /\ inserted[j].key = k}})

\* the calls of onRow made for key k
RowsOf(k) == {j \in 1..Len(q.rows) : q.rows[j].key = k}

\* the call has returned
IterateReturned == q.pc = "done" /\ q.result = "ok"

\* C30: one call of fileStore.iterate over a file and a list of memstores
\* calls onRow at most once per key; when it has returned, it has called
\* onRow exactly once for every key that occurs in the file or in a memstore
\* of the list with a non-empty included column, and each included column of
\* the row is the merge of all occurrences of the key.
C30_EachKeyDeliveredOnceMerged ==
  /\ \A i, j \in 1..Len(q.rows) : q.rows[i].key = q.rows[j].key => i = j
  /\ IterateReturned =>
       \A k \in OccurringKeys :
         (\E f \in q.include : AllOccurrences(k, f) # NilSeq) =>
           /\ Cardinality(RowsOf(k)) = 1
           /\ \A j \in RowsOf(k) : \A f \in q.include :
                q.rows[j].columns[f] = AllOccurrences(k, f)


(***************************************************************************)
(* The ctx values of calls of fileStore.iterate that run at the same time. *)
(***************************************************************************)
\* the flusher is inside its call of fs.iterate
FlusherIterating == fl.pc \in {"file", "walk"}

\* the query is inside its call of fs.iterate
QueryIterating == q.pc \in {"file", "walk"}

\* the flusher and the query are both inside fs.iterate, and the memstore
\* being flushed is in the query's list
OverlapOnMemStore ==
  /\ FlusherIterating
  /\ QueryIterating
  /\ fl.req.memstore \in Listed

\* C31: two executions of fileStore.iterate that overlap in time on the same
\* memstore, the flusher's and a query's, run under different ctx values,
\* neither of them zero.
C31_OverlappingIteratesDifferInCtx ==
  OverlapOnMemStore =>
    /\ fl.ctx # 0
    /\ q.ctx # 0
    /\ fl.ctx # q.ctx


(***************************************************************************)
(* A query on a row store whose file does not exist.                       *)
(***************************************************************************)
\* the query found no file to open: os.IsNotExist(err) at line 919
QueryWithoutFile == q.pc # "idle" /\ ~q.haveFilter

\* the keys that hold data in the trees of the query's list
ListedKeys ==
  UNION {{PathKeys(trees[t])[ni] : ni \in DataNodes(trees[t])} : t \in Listed \ {NilTree}}

\* the columns that the fields named by the query select
RequestedFields == buildShouldInclude(TableFields, q.fields)

\* C32: when the file does not exist, fileStore.iterate neither panics nor
\* returns an error, whatever the number of memstores in its list; it
\* delivers every key of the memstores, and the rows it delivers hold the
\* columns of the requested fields only.
C32_NoFileDeliversMemStores ==
  QueryWithoutFile =>
    /\ ~crashed
    /\ q.result # "error"
    /\ \A j \in 1..Len(q.rows) : \A f \in 1..NumFields :
         (~RequestedFields.err /\ f \notin RequestedFields.include)
           => q.rows[j].columns[f] = NilSeq
    /\ q.pc = "done" =>
         \A k \in ListedKeys : \E j \in 1..Len(q.rows) : q.rows[j].key = k


(***************************************************************************)
(* SpecHeader: a query on a row store whose file was written when the      *)
(* table had its fields in another order, or fewer of them.  Every field   *)
(* of the file's header is still a field of the table.  Column i of the    *)
(* file's row holds a point marked with the field that the header names at *)
(* i, so that the columns of different fields differ.                      *)
(***************************************************************************)
MaxHeaderInserts == 2

\* the headers of the file: the table's fields, the two fields swapped, and
\* one field only (the table gained the other behind it or before it)
FileHeaders == {TableFields, <<2, 1>>, <<1>>, <<2>>}

\* the point that the file holds for a field of its header
FilePoint(field) == [id |-> 0 - field, ts |-> 1]

HeaderFile(header) ==
  [header |-> header,
   rows |-> <<[key |-> <<1>>,
               columns |-> [i \in 1..Len(header) |-> SetToBag({FilePoint(header[i])})]]>>,
   sorted |-> TRUE, covers |-> {}, complete |-> TRUE,
   modTime |-> 0, deleted |-> FALSE,
   replacedAt |-> 0, deletedAt |-> 0, deletedAsCurrent |-> FALSE]

\* the field lists of the query: every field, or one of the two
HeaderFieldLists == {NoFields, <<1>>, <<2>>}

\* openRowStore, lines 541-565
InitHeader ==
  /\ includeMemStore = TRUE
  /\ opts = DefaultOpts
  /\ now = 1
  /\ lastCtx = 0
  /\ memStores = {}
  /\ \E header \in FileHeaders : files = <<HeaderFile(header)>>
  /\ fileStore = 1
  /\ flushes = <<>>
  /\ flushFinished = <<>>
  /\ mx = "free"
  /\ flushTimer = Disabled
  /\ ins = insInit
  /\ fl = flInit
  /\ q = qInit
  /\ inserted = <<>>
  /\ crashed = FALSE
  /\ trees = [t \in {} |-> New]
  /\ arrays = <<>>
  /\ treeInit
  /\ pureIdle

NextHeader ==
  \/ InserterStart
  \/ BeforeQuery /\ \E key \in {<<1>>, <<2>>} : InsertReceiveUpTo(MaxHeaderInserts, key, now)
  \/ BeforeQuery /\ InsertLock
  \/ BeforeQuery /\ InsertField
  \/ NoUpdateGoingOn /\ \E fields \in HeaderFieldLists : QueryStart(fields)
  \/ QueryFileRow
  \/ QueryWalk

SpecHeader == InitHeader /\ [][NextHeader]_vars

\* column c holds a point of the file for field, and a point of a memstore
HoldsFilePoint(c, field) == BagIn(FilePoint(field), c)

HoldsMemStorePoint(c) == \E i \in 1..Len(inserted) : BagIn(inserted[i].point, c)

\* the file's row of key k was delivered after a memstore holding k was merged
\* into it
MergedRows ==
  {j \in 1..Len(q.rows) :
     /\ q.rows[j].key \in FileKeys(q.fs)
     /\ \E i \in 1..Len(inserted) : inserted[i].key = q.rows[j].key}

\* C33: when a row of the file is merged with the data of a memstore, the
\* file's column of a field is combined with the memstore's column of that
\* same field, and the call does not panic, for every header whose fields
\* are all fields of the table: in the table's order or not, and with fewer
\* fields than the table has.  (Column i of a memstore is field i of the
\* table.)
C33_FileColumnMeetsItsField ==
  /\ ~crashed
  /\ \A j \in MergedRows : \A i \in 1..Len(q.rows[j].columns) : \A field \in 1..NumFields :
       (HoldsFilePoint(q.rows[j].columns[i], field) /\ HoldsMemStorePoint(q.rows[j].columns[i]))
         => TableFields[i] = field
  /\ \A j \in MergedRows : \A h \in 1..Len(files[q.fs].header) :
       h \in q.fileInclude =>
         \E i \in 1..Len(q.rows[j].columns) :
           /\ HoldsFilePoint(q.rows[j].columns[i], files[q.fs].header[h])
           /\ HoldsMemStorePoint(q.rows[j].columns[i])


(***************************************************************************)
(* Who holds rs.mx while a task waits on a channel or reads or writes a    *)
(* file.                                                                   *)
(***************************************************************************)
\* the inserter is at "rs.flushes <- fr"
InserterSending == ins.pc = "send"

\* the flusher reads the old file, writes the new one, renames it, or is at
\* "rs.flushFinished <- flushDuration"
FlusherBusy == fl.pc \in {"file", "walk", "close", "notify"}

\* C34: no task holds the row store's lock while it waits on a channel or
\* does file I/O: not the inserter while it sends on flushes, not the flusher
\* while it reads and writes files or sends on flushFinished, not a query
\* while it reads the file.
C34_NoLockAcrossChannelOrFile ==
  /\ InserterSending => mx # "inserter"
  /\ FlusherBusy => mx # "flusher"
  /\ QueryIterating => mx # "query"

\* the inserter holds the lock for an update while the flusher and a query
\* are both inside fs.iterate
C34_Witness == mx = "inserter" /\ FlusherIterating /\ QueryIterating


(***************************************************************************)
(* The lock around rs.memStores and rs.fileStore.                          *)
(***************************************************************************)
\* a step writes the memStores map or the fileStore reference
WritesMapOrFileStore == memStores' # memStores \/ fileStore' # fileStore

\* the steps that the code makes between rs.mx.Lock() and rs.mx.Unlock():
\* the retirement of a memstore in flush() and the swap of processFlushes
UnderWriteLock == mx = "free" /\ (Flush \/ FlusherSwap)

\* C35: from the return of openRowStore on, every write of rs.memStores and
\* of rs.fileStore is made under the write lock, so that a query, which reads
\* them under the read lock, never reads the map while the first memstore is
\* being registered and never sees an empty map.
C35_MapAndFileStoreWrittenUnderLock ==
  /\ [][WritesMapOrFileStore => UnderWriteLock]_vars
  /\ [](SnapshotTaken => q.snapKeys # {})

====
